---- MODULE Spec2Model ----
(***************************************************************************)
(* VScope on-device core (src/onboard/vscope.c): registry, channel map,    *)
(* acquisition engine, trigger detector, snapshot, frame receiver, command *)
(* dispatcher and frame transmitter.                                       *)
(*                                                                         *)
(* The file-scope statics of vscope.c are the fields of the record dev.    *)
(* Handlers are operators from a world record                              *)
(*   [dev, var_mem, rt_mem, tx]                                           *)
(* to a world record, so that one vscopeFeed call can run several of them. *)
(* Arrays are functions over 0..N-1, as in C.  Floats are modelled by      *)
(* small integers (exactly representable values whose differences and      *)
(* products neither underflow nor overflow).                               *)
(***************************************************************************)
EXTENDS Integers, Sequences, FiniteSets, TLC

(***************************************************************************)
(* Sizes of the model.  The build-time sizes of the library are scaled     *)
(* down; every operator below is written for arbitrary sizes.              *)
(***************************************************************************)
VSCOPE_NUM_CHANNELS == 2
VSCOPE_BUFFER_SIZE == 3
VSCOPE_MAX_VARIABLES == 2
VSCOPE_RT_BUFFER_LEN == 1
VSCOPE_NAME_LEN == 2
MaxDivider == 2
MaxSample == 1

(***************************************************************************)
(* Program constants of vscope.c.                                          *)
(***************************************************************************)
VSCOPE_MAX_PAYLOAD == 252
VSCOPE_SYNC_BYTE == 200
VSCOPE_PROTOCOL_VERSION == 1
VSCOPE_ISR_KHZ == 10

VSCOPE_HALTED == 0
VSCOPE_RUNNING == 1
VSCOPE_ACQUIRING == 2
VSCOPE_MISCONFIGURED == 3

VSCOPE_TRG_DISABLED == 0
VSCOPE_TRG_RISING == 1
VSCOPE_TRG_FALLING == 2
VSCOPE_TRG_BOTH == 3

VSCOPE_ERR_BAD_LEN == 1
VSCOPE_ERR_BAD_PARAM == 2
VSCOPE_ERR_RANGE == 4
VSCOPE_ERR_NOT_READY == 5

VSCOPE_MSG_GET_INFO == 1
VSCOPE_MSG_GET_TIMING == 2
VSCOPE_MSG_SET_TIMING == 3
VSCOPE_MSG_GET_STATE == 4
VSCOPE_MSG_SET_STATE == 5
VSCOPE_MSG_TRIGGER == 6
VSCOPE_MSG_GET_FRAME == 7
VSCOPE_MSG_GET_SNAPSHOT_HEADER == 8
VSCOPE_MSG_GET_SNAPSHOT_DATA == 9
VSCOPE_MSG_GET_VAR_LIST == 10
VSCOPE_MSG_GET_CHANNEL_MAP == 11
VSCOPE_MSG_SET_CHANNEL_MAP == 12
VSCOPE_MSG_GET_CHANNEL_LABELS == 13
VSCOPE_MSG_GET_RT_LABELS == 14
VSCOPE_MSG_GET_RT_BUFFER == 15
VSCOPE_MSG_SET_RT_BUFFER == 16
VSCOPE_MSG_GET_TRIGGER == 17
VSCOPE_MSG_SET_TRIGGER == 18
VSCOPE_MSG_ERROR == 255

VS_RX_IDLE == 0
VS_RX_LEN == 1
VS_RX_DATA == 2

\* &vscope_zero_value, and the null pointer of a zeroed pointer array.
ZERO_PTR == -1
NULL_PTR == -2

Channels == 0 .. (VSCOPE_NUM_CHANNELS - 1)
Rows == 0 .. (VSCOPE_BUFFER_SIZE - 1)
VarIds == 0 .. (VSCOPE_MAX_VARIABLES - 1)
RtIds == 0 .. (VSCOPE_RT_BUFFER_LEN - 1)
Floats == (0 - MaxSample) .. MaxSample

(***************************************************************************)
(* Codec                                                                   *)
(***************************************************************************)
crc8_lut == <<
    0, 213, 127, 170, 254, 43, 129, 84, 41, 252, 86, 131, 215, 2, 168, 125,
    82, 135, 45, 248, 172, 121, 211, 6, 123, 174, 4, 209, 133, 80, 250, 47,
    164, 113, 219, 14, 90, 143, 37, 240, 141, 88, 242, 39, 115, 166, 12, 217,
    246, 35, 137, 92, 8, 221, 119, 162, 223, 10, 160, 117, 33, 244, 94, 139,
    157, 72, 226, 55, 99, 182, 28, 201, 180, 97, 203, 30, 74, 159, 53, 224,
    207, 26, 176, 101, 49, 228, 78, 155, 230, 51, 153, 76, 24, 205, 103, 178,
    57, 236, 70, 147, 199, 18, 184, 109, 16, 197, 111, 186, 238, 59, 145, 68,
    107, 190, 20, 193, 149, 64, 234, 63, 66, 151, 61, 232, 188, 105, 195, 22,
    239, 58, 144, 69, 17, 196, 110, 187, 198, 19, 185, 108, 56, 237, 71, 146,
    189, 104, 194, 23, 67, 150, 60, 233, 148, 65, 235, 62, 106, 191, 21, 192,
    75, 158, 52, 225, 181, 96, 202, 31, 98, 183, 29, 200, 156, 73, 227, 54,
    25, 204, 102, 179, 231, 50, 152, 77, 48, 229, 79, 154, 206, 27, 177, 100,
    114, 167, 13, 216, 140, 89, 243, 38, 91, 142, 36, 241, 165, 112, 218, 15,
    32, 245, 95, 138, 222, 11, 161, 116, 9, 220, 118, 163, 247, 34, 136, 93,
    214, 3, 169, 124, 40, 253, 87, 130, 255, 42, 128, 85, 1, 212, 126, 171,
    132, 81, 251, 46, 122, 175, 5, 208, 173, 120, 210, 7, 83, 134, 44, 249
>>

RECURSIVE BitXor(_, _, _)
\* a ^ b on n-bit operands.
BitXor(a, b, n) ==
    IF n = 0 THEN 0
    ELSE ((a + b) % 2) + 2 * BitXor(a \div 2, b \div 2, n - 1)

RECURSIVE Crc8From(_, _, _)
Crc8From(crc, data, i) ==
    IF i > Len(data) THEN crc
    ELSE Crc8From(crc8_lut[BitXor(crc, data[i], 8) + 1], data, i + 1)

\* vscope_crc8 over the whole sequence data, seed 0.
vscope_crc8(data) == Crc8From(0, data, 1)

vscope_read_u16(data) == data[1] + 256 * data[2]

\* Values below 2^31 only: the top byte of every u32 fed to the model is < 128.
vscope_read_u32(data) == data[1] + 256 * data[2] + 65536 * data[3] + 16777216 * data[4]

vscope_write_u16(value) == << value % 256, (value \div 256) % 256 >>

vscope_write_u32(value) ==
    << value % 256, (value \div 256) % 256, (value \div 65536) % 256,
       (value \div 16777216) % 256 >>

\* The IEEE-754 single of a small integer, as the four bytes vscope_write_u32
\* stores for its raw bits (little-endian): 1.0f = 0x3F800000, 2.0f = 0x40000000,
\* 3.0f = 0x40400000, 4.0f = 0x40800000, sign in bit 31.
F32Magnitude(n) ==
    CASE n = 0 -> << 0, 0, 0, 0 >>
      [] n = 1 -> << 0, 0, 128, 63 >>
      [] n = 2 -> << 0, 0, 0, 64 >>
      [] n = 3 -> << 0, 0, 64, 64 >>
      [] n = 4 -> << 0, 0, 128, 64 >>

vscope_write_f32(value) ==
    IF value >= 0 THEN F32Magnitude(value)
    ELSE [F32Magnitude(0 - value) EXCEPT ![4] = @ + 128]

F32Domain == (0 - 4) .. 4

\* The float whose bytes are data; bit patterns outside the table are not fed.
vscope_read_f32(data) ==
    IF \E v \in F32Domain : vscope_write_f32(v) = data
    THEN CHOOSE v \in F32Domain : vscope_write_f32(v) = data
    ELSE 0

vscope_min_u16(a, b) == IF a < b THEN a ELSE b

\* len bytes: src up to its NUL or len-1 bytes, zero padded.
RECURSIVE StrLen(_, _)
StrLen(src, i) ==
    IF i > Len(src) \/ src[i] = 0 THEN i - 1 ELSE StrLen(src, i + 1)

vscope_write_str_fixed(src, len) ==
    LET n == vscope_min_u16(StrLen(src, 1), len - 1)
    IN  [i \in 1 .. len |-> IF i <= n THEN src[i] ELSE 0]

\* The sequence f[lo], ..., f[hi] of a function over integers.
FnSeq(f, lo, hi) == [i \in 1 .. (hi - lo + 1) |-> f[lo + i - 1]]

RECURSIVE Flatten(_)
Flatten(seqs) == IF seqs = << >> THEN << >> ELSE Head(seqs) \o Flatten(Tail(seqs))

(***************************************************************************)
(* State                                                                   *)
(***************************************************************************)
VARIABLES
    dev,        \* the file-scope statics of vscope.c (and the function statics)
    var_mem,    \* the application floats registered as variables, by pointer
    rt_mem,     \* the application floats registered as RT buffers, by pointer
    tx,         \* the frames handed to vscopeTxBytes by the last entry-point call
    now_us,     \* the timestamp of the last vscopeFeed call
    task,       \* the task context: idle, or inside a preempted handler
    hist        \* history of the acquisition, for stating the properties

vars == << dev, var_mem, rt_mem, tx, now_us, task, hist >>

\* The name the application gives its k-th variable / RT buffer.
VarName(k) == << 65 + k >>
RtName(k) == << 97 + k >>
DeviceName == << 86 >>

ZeroName == [i \in 1 .. VSCOPE_NAME_LEN |-> 0]

ZeroMeta ==
    [ divider |-> 0, pre_trig |-> 0,
      channel_map |-> [i \in Channels |-> 0],
      trigger_threshold |-> 0, trigger_channel |-> 0, trigger_mode |-> 0 ]

\* Static storage before any call: all zero.
DevZero ==
    [ vscope_state |-> VSCOPE_HALTED,
      vscope_request |-> VSCOPE_HALTED,
      vscope_isr_khz |-> 0,
      vscope_device_name |-> ZeroName,
      vscope_divider |-> 0,
      vscope_pre_trig |-> 0,
      vscope_acq_time |-> 0,
      vscope_index |-> 0,
      vscope_first_element |-> 0,
      vscope_trigger_threshold |-> 0,
      vscope_trigger_channel |-> 0,
      vscope_trigger_mode |-> VSCOPE_TRG_DISABLED,
      trigger_invalid |-> FALSE,
      var_catalog |-> [i \in VarIds |-> [name |-> ZeroName, ptr |-> NULL_PTR]],
      var_count |-> 0,
      registration_locked |-> FALSE,
      channel_map |-> [i \in Channels |-> 0],
      vscope_frame |-> [i \in Channels |-> NULL_PTR],
      vscope_buffer |-> [r \in Rows |-> [i \in Channels |-> 0]],
      rt_values |-> [i \in RtIds |-> NULL_PTR],
      rt_names |-> [i \in RtIds |-> ZeroName],
      rt_count |-> 0,
      snapshot_meta |-> ZeroMeta,
      snapshot_rt_values |-> [i \in RtIds |-> 0],
      snapshot_rt_count |-> 0,
      snapshot_valid |-> FALSE,
      rx_state |-> VS_RX_IDLE,
      rx_expected_len |-> 0,
      rx_index |-> 0,
      rx_last_us |-> 0,
      rx_buf |-> << >>,       \* rx_buf[0 .. rx_index-1]; the rest is never read
      last_delta |-> 0,       \* static of vscope_check_trigger
      divider_ticks |-> 0,    \* static of vscopeAcquire
      run_index |-> 0 ]       \* static of vscopeAcquire

\* *p for a sample pointer p.
Deref(w, p) == IF p = ZERO_PTR THEN 0 ELSE w.var_mem[p]

(***************************************************************************)
(* Registry                                                                *)
(***************************************************************************)
\* vscopeRegisterVar(name, ptr) with ptr the application float number ptr.
\* vscopeRegisterVar without the test of registration_locked.
RegisterVarIgnoresLock(d, name, ptr) ==
    IF d.var_count >= VSCOPE_MAX_VARIABLES \/ ptr = NULL_PTR
    THEN d
    ELSE [d EXCEPT
            !.var_catalog[d.var_count] =
                [name |-> vscope_write_str_fixed(name, VSCOPE_NAME_LEN), ptr |-> ptr],
            !.var_count = d.var_count + 1]

vscopeRegisterVar(d, name, ptr) ==
    IF d.registration_locked \/ d.var_count >= VSCOPE_MAX_VARIABLES \/ ptr = NULL_PTR
    THEN d
    ELSE [d EXCEPT
            !.var_catalog[d.var_count] =
                [name |-> vscope_write_str_fixed(name, VSCOPE_NAME_LEN), ptr |-> ptr],
            !.var_count = d.var_count + 1]

vscopeRegisterRtBuffer(d, name, ptr) ==
    IF d.registration_locked \/ d.rt_count >= VSCOPE_RT_BUFFER_LEN \/ ptr = NULL_PTR
    THEN d
    ELSE [d EXCEPT
            !.rt_names[d.rt_count] = vscope_write_str_fixed(name, VSCOPE_NAME_LEN),
            !.rt_values[d.rt_count] = ptr,
            !.rt_count = d.rt_count + 1]

(***************************************************************************)
(* Frame transmitter                                                       *)
(***************************************************************************)
\* A frame whose CRC also covers the SYNC and length bytes.
FrameBytesCrcFromSync(type, payload) ==
    LET head == << VSCOPE_SYNC_BYTE, (Len(payload) + 2) % 256, type >> \o payload
    IN  head \o << vscope_crc8(head) >>

\* The bytes vscope_send_frame hands to vscopeTxBytes for (type, payload).
FrameBytes(type, payload) ==
    LET len_field == (Len(payload) + 2) % 256
    IN  << VSCOPE_SYNC_BYTE, len_field, type >> \o payload
            \o << vscope_crc8(<< type >> \o payload) >>

\* tx records each call of vscopeTxBytes by the (type, payload) that
\* vscope_send_frame framed; FrameBytes gives the bytes on the wire.
vscope_send_frame(w, type, payload) ==
    IF Len(payload) > VSCOPE_MAX_PAYLOAD THEN w
    ELSE [w EXCEPT !.tx = Append(@, [type |-> type, payload |-> payload])]

\* An error path that returns without transmitting.
SendErrorSilent(w, error_code) == w

vscope_send_error(w, error_code) ==
    vscope_send_frame(w, VSCOPE_MSG_ERROR, << error_code >>)

vscope_send_payload(w, type, data) ==
    IF Len(data) > VSCOPE_MAX_PAYLOAD
    THEN vscope_send_error(w, VSCOPE_ERR_BAD_LEN)
    ELSE vscope_send_frame(w, type, data)

(***************************************************************************)
(* Channel map                                                             *)
(***************************************************************************)
vscope_get_mapped_channel(d, channel) ==
    IF channel >= VSCOPE_NUM_CHANNELS THEN 0 ELSE d.channel_map[channel]

\* The update with one loop that validates and stores channel by channel, so
\* that the channels before an offending id are already replaced.
UpdateChannelMapPartial(d, ids) ==
    LET bad == { i \in Channels : ids[i + 1] >= d.var_count }
        stop == IF bad = {} THEN VSCOPE_NUM_CHANNELS
                ELSE CHOOSE i \in bad : \A j \in bad : i <= j
    IN  << bad = {},
           [d EXCEPT
              !.channel_map = [i \in Channels |-> IF i < stop THEN ids[i + 1] ELSE @[i]],
              !.vscope_frame = [i \in Channels |->
                                  IF i < stop THEN d.var_catalog[ids[i + 1]].ptr
                                  ELSE @[i]]] >>

\* ids is the payload (1-based); the result is << accepted, dev >>.
vscope_update_channel_map(d, ids) ==
    IF \E i \in Channels : ids[i + 1] >= d.var_count
    THEN << FALSE, d >>
    ELSE << TRUE,
            [d EXCEPT
               !.channel_map = [i \in Channels |-> ids[i + 1]],
               !.vscope_frame = [i \in Channels |-> d.var_catalog[ids[i + 1]].ptr]] >>

(***************************************************************************)
(* Manual trigger                                                          *)
(***************************************************************************)
vscopeTrigger(d) ==
    IF d.vscope_state = VSCOPE_RUNNING
    THEN [d EXCEPT !.vscope_request = VSCOPE_ACQUIRING]
    ELSE d

(***************************************************************************)
(* Command handlers: world -> world                                        *)
(***************************************************************************)
\* A GET_INFO reply that leaves out the protocol version.
GetInfoNoVersion(w) ==
    vscope_send_payload(w, VSCOPE_MSG_GET_INFO,
        << VSCOPE_NUM_CHANNELS >> \o vscope_write_u16(VSCOPE_BUFFER_SIZE)
            \o vscope_write_u16(w.dev.vscope_isr_khz))

vscope_handle_get_info(w) ==
    LET d == w.dev
        data == << VSCOPE_PROTOCOL_VERSION, VSCOPE_NUM_CHANNELS >>
                    \o vscope_write_u16(VSCOPE_BUFFER_SIZE)
                    \o vscope_write_u16(d.vscope_isr_khz)
                    \o << d.var_count, d.rt_count, VSCOPE_RT_BUFFER_LEN, VSCOPE_NAME_LEN >>
                    \o vscope_write_str_fixed(d.vscope_device_name, VSCOPE_NAME_LEN)
    IN  vscope_send_payload(w, VSCOPE_MSG_GET_INFO, data)

vscope_send_timing(w, type) ==
    vscope_send_payload(w, type,
        vscope_write_u32(w.dev.vscope_divider) \o vscope_write_u32(w.dev.vscope_pre_trig))

vscope_handle_get_timing(w) == vscope_send_timing(w, VSCOPE_MSG_GET_TIMING)

\* SET_TIMING without the test of the state.
SetTimingAnyState(w, payload) ==
    IF Len(payload) # 8 THEN vscope_send_error(w, VSCOPE_ERR_BAD_LEN)
    ELSE
      LET divider == vscope_read_u32(SubSeq(payload, 1, 4))
          pre_trig == vscope_read_u32(SubSeq(payload, 5, 8))
      IN  IF divider = 0 \/ pre_trig > VSCOPE_BUFFER_SIZE
          THEN vscope_send_error(w, VSCOPE_ERR_BAD_PARAM)
          ELSE vscope_send_timing(
                  [w EXCEPT !.dev.vscope_divider = divider,
                            !.dev.vscope_pre_trig = pre_trig,
                            !.dev.vscope_acq_time = VSCOPE_BUFFER_SIZE - pre_trig],
                  VSCOPE_MSG_SET_TIMING)

vscope_handle_set_timing(w, payload) ==
    IF Len(payload) # 8 THEN vscope_send_error(w, VSCOPE_ERR_BAD_LEN)
    ELSE
      LET divider == vscope_read_u32(SubSeq(payload, 1, 4))
          pre_trig == vscope_read_u32(SubSeq(payload, 5, 8))
      IN  IF divider = 0 \/ pre_trig > VSCOPE_BUFFER_SIZE
          THEN vscope_send_error(w, VSCOPE_ERR_BAD_PARAM)
          ELSE IF w.dev.vscope_state # VSCOPE_HALTED
          THEN vscope_send_error(w, VSCOPE_ERR_BAD_PARAM)
          ELSE vscope_send_timing(
                  [w EXCEPT !.dev.vscope_divider = divider,
                            !.dev.vscope_pre_trig = pre_trig,
                            !.dev.vscope_acq_time = VSCOPE_BUFFER_SIZE - pre_trig],
                  VSCOPE_MSG_SET_TIMING)

vscope_send_state(w, type) == vscope_send_payload(w, type, << w.dev.vscope_state >>)

vscope_handle_get_state(w) == vscope_send_state(w, VSCOPE_MSG_GET_STATE)

\* SET_STATE answering with the state it was asked for.
SetStateEchoesRequest(w, payload) ==
    IF Len(payload) # 1 THEN vscope_send_error(w, VSCOPE_ERR_BAD_LEN)
    ELSE IF payload[1] > VSCOPE_ACQUIRING
         THEN vscope_send_error(w, VSCOPE_ERR_BAD_PARAM)
         ELSE vscope_send_payload([w EXCEPT !.dev.vscope_request = payload[1]],
                                  VSCOPE_MSG_SET_STATE, << payload[1] >>)

vscope_handle_set_state(w, payload) ==
    IF Len(payload) # 1 THEN vscope_send_error(w, VSCOPE_ERR_BAD_LEN)
    ELSE
      LET requested == payload[1]
      IN  IF requested > VSCOPE_ACQUIRING
          THEN vscope_send_error(w, VSCOPE_ERR_BAD_PARAM)
          ELSE vscope_send_state([w EXCEPT !.dev.vscope_request = requested],
                                 VSCOPE_MSG_SET_STATE)

vscope_handle_trigger(w) ==
    vscope_send_payload([w EXCEPT !.dev = vscopeTrigger(w.dev)], VSCOPE_MSG_TRIGGER, << >>)

vscope_handle_get_frame(w) ==
    vscope_send_payload(w, VSCOPE_MSG_GET_FRAME,
        Flatten([i \in 1 .. VSCOPE_NUM_CHANNELS |->
                    vscope_write_f32(Deref(w, w.dev.vscope_frame[i - 1]))]))

vscope_handle_get_snapshot_header(w) ==
    LET d == w.dev
        m == d.snapshot_meta
    IN  IF ~d.snapshot_valid THEN vscope_send_error(w, VSCOPE_ERR_NOT_READY)
        ELSE vscope_send_payload(w, VSCOPE_MSG_GET_SNAPSHOT_HEADER,
                FnSeq(m.channel_map, 0, VSCOPE_NUM_CHANNELS - 1)
                  \o vscope_write_u32(m.divider)
                  \o vscope_write_u32(m.pre_trig)
                  \o vscope_write_f32(m.trigger_threshold)
                  \o << m.trigger_channel, m.trigger_mode >>
                  \o Flatten([i \in 1 .. d.snapshot_rt_count |->
                                vscope_write_f32(d.snapshot_rt_values[i - 1])]))

\* The bytes of buffer row sample_index.
RowBytes(d, sample_index) ==
    Flatten([c \in 1 .. VSCOPE_NUM_CHANNELS |->
                vscope_write_f32(d.vscope_buffer[sample_index][c - 1])])

\* GET_SNAPSHOT_DATA with the length tested before snapshot_valid, and the
\* not-ready case answered as a bad parameter.
SnapshotDataNeverNotReady(w, payload) ==
    LET d == w.dev
    IN  IF Len(payload) # 3 THEN vscope_send_error(w, VSCOPE_ERR_BAD_LEN)
        ELSE IF ~d.snapshot_valid THEN vscope_send_error(w, VSCOPE_ERR_BAD_PARAM)
        ELSE vscope_send_payload(w, VSCOPE_MSG_GET_SNAPSHOT_DATA,
                RowBytes(d, d.vscope_first_element))

vscope_handle_get_snapshot_data(w, payload) ==
    LET d == w.dev
    IN  IF ~d.snapshot_valid THEN vscope_send_error(w, VSCOPE_ERR_NOT_READY)
        ELSE IF Len(payload) # 3 THEN vscope_send_error(w, VSCOPE_ERR_BAD_LEN)
        ELSE
          LET start_sample == vscope_read_u16(payload)
              requested_count == payload[3]
              max_samples == VSCOPE_MAX_PAYLOAD \div (VSCOPE_NUM_CHANNELS * 4)
          IN  IF start_sample >= VSCOPE_BUFFER_SIZE \/ requested_count = 0
                    \/ requested_count > VSCOPE_BUFFER_SIZE
              THEN vscope_send_error(w, VSCOPE_ERR_BAD_PARAM)
              ELSE IF start_sample + requested_count > VSCOPE_BUFFER_SIZE
              THEN vscope_send_error(w, VSCOPE_ERR_BAD_PARAM)
              ELSE IF requested_count > max_samples
              THEN vscope_send_error(w, VSCOPE_ERR_BAD_LEN)
              ELSE vscope_send_payload(w, VSCOPE_MSG_GET_SNAPSHOT_DATA,
                      Flatten([i \in 1 .. requested_count |->
                          RowBytes(d, (d.vscope_first_element + start_sample + (i - 1))
                                          % VSCOPE_BUFFER_SIZE)]))

\* The body shared by GET_VAR_LIST and GET_RT_LABELS: total entries, names by id.
ListReply(w, type, payload, total, names) ==
    IF Len(payload) > 2 THEN vscope_send_error(w, VSCOPE_ERR_BAD_LEN)
    ELSE
      LET start_idx == IF Len(payload) >= 1 THEN payload[1] ELSE 0
          requested_count == IF Len(payload) >= 2 THEN payload[2] ELSE 255
      IN  IF start_idx > total THEN vscope_send_error(w, VSCOPE_ERR_BAD_PARAM)
          ELSE
            LET entry_size == 1 + VSCOPE_NAME_LEN
                max_entries == (VSCOPE_MAX_PAYLOAD - 3) \div entry_size
                available == total - start_idx
                desired == IF requested_count = 255 THEN available ELSE requested_count
                count == vscope_min_u16(desired, vscope_min_u16(available, max_entries))
            IN  vscope_send_payload(w, type,
                    << total, start_idx, count % 256 >>
                      \o Flatten([i \in 1 .. count |->
                            << (start_idx + i - 1) % 256 >>
                              \o vscope_write_str_fixed(names[(start_idx + i - 1) % 256],
                                                        VSCOPE_NAME_LEN)]))

vscope_handle_get_var_list(w, payload) ==
    ListReply(w, VSCOPE_MSG_GET_VAR_LIST, payload, w.dev.var_count,
              [i \in VarIds |-> w.dev.var_catalog[i].name])

vscope_handle_get_rt_labels(w, payload) ==
    ListReply(w, VSCOPE_MSG_GET_RT_LABELS, payload, w.dev.rt_count, w.dev.rt_names)

vscope_send_channel_map(w, type) ==
    vscope_send_payload(w, type, FnSeq(w.dev.channel_map, 0, VSCOPE_NUM_CHANNELS - 1))

vscope_handle_get_channel_map(w) == vscope_send_channel_map(w, VSCOPE_MSG_GET_CHANNEL_MAP)

vscope_handle_set_channel_map(w, payload) ==
    IF Len(payload) # VSCOPE_NUM_CHANNELS THEN vscope_send_error(w, VSCOPE_ERR_BAD_LEN)
    ELSE
      LET r == vscope_update_channel_map(w.dev, payload)
          u == [w EXCEPT !.dev = r[2]]
      IN  IF ~r[1] THEN vscope_send_error(u, VSCOPE_ERR_BAD_PARAM)
          ELSE vscope_send_channel_map(u, VSCOPE_MSG_SET_CHANNEL_MAP)

vscope_handle_get_channel_labels(w) ==
    LET d == w.dev
    IN  vscope_send_payload(w, VSCOPE_MSG_GET_CHANNEL_LABELS,
            Flatten([i \in 1 .. VSCOPE_NUM_CHANNELS |->
                LET id == vscope_get_mapped_channel(d, i - 1)
                IN  IF id < d.var_count
                    THEN vscope_write_str_fixed(d.var_catalog[id].name, VSCOPE_NAME_LEN)
                    ELSE ZeroName]))

vscope_send_rt_buffer_value(w, type, idx) ==
    vscope_send_payload(w, type, vscope_write_f32(w.rt_mem[w.dev.rt_values[idx]]))

vscope_handle_get_rt_buffer(w, payload) ==
    IF Len(payload) # 1 THEN vscope_send_error(w, VSCOPE_ERR_BAD_LEN)
    ELSE IF payload[1] >= w.dev.rt_count THEN vscope_send_error(w, VSCOPE_ERR_RANGE)
    ELSE vscope_send_rt_buffer_value(w, VSCOPE_MSG_GET_RT_BUFFER, payload[1])

vscope_handle_set_rt_buffer(w, payload) ==
    IF Len(payload) # 5 THEN vscope_send_error(w, VSCOPE_ERR_BAD_LEN)
    ELSE IF payload[1] >= w.dev.rt_count THEN vscope_send_error(w, VSCOPE_ERR_RANGE)
    ELSE
      LET idx == payload[1]
          value == vscope_read_f32(SubSeq(payload, 2, 5))
      IN  vscope_send_rt_buffer_value(
              [w EXCEPT !.rt_mem[w.dev.rt_values[idx]] = value],
              VSCOPE_MSG_SET_RT_BUFFER, idx)

vscope_send_trigger(w, type) ==
    vscope_send_payload(w, type,
        vscope_write_f32(w.dev.vscope_trigger_threshold)
          \o << w.dev.vscope_trigger_channel, w.dev.vscope_trigger_mode >>)

vscope_handle_get_trigger(w) == vscope_send_trigger(w, VSCOPE_MSG_GET_TRIGGER)

\* SET_TRIGGER that leaves the trigger channel as it was.
SetTriggerKeepsChannel(w, payload) ==
    IF Len(payload) # 6 THEN vscope_send_error(w, VSCOPE_ERR_BAD_LEN)
    ELSE IF payload[5] >= VSCOPE_NUM_CHANNELS \/ payload[6] > VSCOPE_TRG_BOTH
         THEN vscope_send_error(w, VSCOPE_ERR_BAD_PARAM)
         ELSE vscope_send_trigger(
                 [w EXCEPT !.dev.vscope_trigger_threshold =
                               vscope_read_f32(SubSeq(payload, 1, 4)),
                           !.dev.vscope_trigger_mode = payload[6],
                           !.dev.trigger_invalid = TRUE],
                 VSCOPE_MSG_SET_TRIGGER)

vscope_handle_set_trigger(w, payload) ==
    IF Len(payload) # 6 THEN vscope_send_error(w, VSCOPE_ERR_BAD_LEN)
    ELSE
      LET threshold == vscope_read_f32(SubSeq(payload, 1, 4))
          channel == payload[5]
          mode == payload[6]
      IN  IF channel >= VSCOPE_NUM_CHANNELS \/ mode > VSCOPE_TRG_BOTH
          THEN vscope_send_error(w, VSCOPE_ERR_BAD_PARAM)
          ELSE vscope_send_trigger(
                  [w EXCEPT !.dev.vscope_trigger_threshold = threshold,
                            !.dev.vscope_trigger_channel = channel,
                            !.dev.vscope_trigger_mode = mode,
                            !.dev.trigger_invalid = TRUE],
                  VSCOPE_MSG_SET_TRIGGER)

\* A handler that takes no payload: BAD_LEN unless the payload is empty.
NoPayload(w, payload, reply) ==
    IF Len(payload) # 0 THEN vscope_send_error(w, VSCOPE_ERR_BAD_LEN) ELSE reply

vscope_handle_frame(w, type, payload) ==
    CASE type = VSCOPE_MSG_GET_INFO -> NoPayload(w, payload, vscope_handle_get_info(w))
      [] type = VSCOPE_MSG_GET_TIMING -> NoPayload(w, payload, vscope_handle_get_timing(w))
      [] type = VSCOPE_MSG_SET_TIMING -> vscope_handle_set_timing(w, payload)
      [] type = VSCOPE_MSG_GET_STATE -> NoPayload(w, payload, vscope_handle_get_state(w))
      [] type = VSCOPE_MSG_SET_STATE -> vscope_handle_set_state(w, payload)
      [] type = VSCOPE_MSG_TRIGGER -> NoPayload(w, payload, vscope_handle_trigger(w))
      [] type = VSCOPE_MSG_GET_FRAME -> NoPayload(w, payload, vscope_handle_get_frame(w))
      [] type = VSCOPE_MSG_GET_SNAPSHOT_HEADER ->
            NoPayload(w, payload, vscope_handle_get_snapshot_header(w))
      [] type = VSCOPE_MSG_GET_SNAPSHOT_DATA -> vscope_handle_get_snapshot_data(w, payload)
      [] type = VSCOPE_MSG_GET_VAR_LIST -> vscope_handle_get_var_list(w, payload)
      [] type = VSCOPE_MSG_GET_CHANNEL_MAP ->
            NoPayload(w, payload, vscope_handle_get_channel_map(w))
      [] type = VSCOPE_MSG_SET_CHANNEL_MAP -> vscope_handle_set_channel_map(w, payload)
      [] type = VSCOPE_MSG_GET_CHANNEL_LABELS ->
            NoPayload(w, payload, vscope_handle_get_channel_labels(w))
      [] type = VSCOPE_MSG_GET_RT_LABELS -> vscope_handle_get_rt_labels(w, payload)
      [] type = VSCOPE_MSG_GET_RT_BUFFER -> vscope_handle_get_rt_buffer(w, payload)
      [] type = VSCOPE_MSG_SET_RT_BUFFER -> vscope_handle_set_rt_buffer(w, payload)
      [] type = VSCOPE_MSG_GET_TRIGGER -> NoPayload(w, payload, vscope_handle_get_trigger(w))
      [] type = VSCOPE_MSG_SET_TRIGGER -> vscope_handle_set_trigger(w, payload)
      [] OTHER -> vscope_send_error(w, VSCOPE_ERR_BAD_PARAM)

(***************************************************************************)
(* vscopeInit                                                              *)
(***************************************************************************)
vscopeInit(d, device_name, isr_khz) ==
    [d EXCEPT
       !.vscope_state =
           IF d.var_count < VSCOPE_NUM_CHANNELS THEN VSCOPE_MISCONFIGURED ELSE VSCOPE_HALTED,
       !.vscope_request = VSCOPE_HALTED,
       !.vscope_frame =
           [i \in Channels |->
               IF d.var_count = 0 THEN ZERO_PTR
               ELSE d.var_catalog[IF i < d.var_count THEN i ELSE 0].ptr],
       !.vscope_buffer = [r \in Rows |-> [i \in Channels |-> 0]],
       !.vscope_divider = 1,
       !.vscope_pre_trig = 0,
       !.vscope_acq_time = VSCOPE_BUFFER_SIZE - 0,
       !.vscope_index = 0,
       !.vscope_first_element = 0,
       !.vscope_isr_khz = isr_khz,
       !.vscope_trigger_threshold = 0,
       !.vscope_trigger_channel = 0,
       !.vscope_trigger_mode = VSCOPE_TRG_DISABLED,
       !.vscope_device_name = vscope_write_str_fixed(device_name, VSCOPE_NAME_LEN),
       !.snapshot_valid = FALSE,
       !.snapshot_rt_count = 0,
       !.trigger_invalid = TRUE,
       !.registration_locked = TRUE,
       !.channel_map =
           [i \in Channels |-> IF d.var_count = 0 THEN 0
                               ELSE IF i < d.var_count THEN i ELSE 0]]

(***************************************************************************)
(* Acquisition engine and trigger detector                                 *)
(***************************************************************************)
vscope_capture_snapshot_meta(w) ==
    LET d == w.dev
    IN  [d EXCEPT
           !.snapshot_meta =
               [ divider |-> d.vscope_divider,
                 pre_trig |-> d.vscope_pre_trig,
                 channel_map |-> d.channel_map,
                 trigger_threshold |-> d.vscope_trigger_threshold,
                 trigger_channel |-> d.vscope_trigger_channel,
                 trigger_mode |-> d.vscope_trigger_mode ],
           !.snapshot_rt_count = d.rt_count,
           !.snapshot_rt_values =
               [i \in RtIds |-> IF i < d.rt_count THEN w.rt_mem[d.rt_values[i]]
                                ELSE d.snapshot_rt_values[i]]]

\* vscope_save_frame without the wrap of the write index.
SaveFrameNoWrap(w, d) ==
    [d EXCEPT
       !.vscope_buffer[d.vscope_index % VSCOPE_BUFFER_SIZE] =
           [i \in Channels |-> Deref(w, d.vscope_frame[i])],
       !.vscope_index = d.vscope_index + 1]

\* d is the device as the caller has it; the floats are read from w.
vscope_save_frame(w, d) ==
    [d EXCEPT
       !.vscope_buffer[d.vscope_index] = [i \in Channels |-> Deref(w, d.vscope_frame[i])],
       !.vscope_index =
           IF d.vscope_index + 1 >= VSCOPE_BUFFER_SIZE THEN 0 ELSE d.vscope_index + 1]

\* current_delta of vscope_check_trigger.
CurrentDelta(w) ==
    Deref(w, w.dev.vscope_frame[w.dev.vscope_trigger_channel])
        - w.dev.vscope_trigger_threshold

\* The detector with the product compared by <=, so that a zero delta counts
\* as a crossing.
TriggerFiresOnZero(d, current_delta) ==
    /\ ~d.trigger_invalid
    /\ d.vscope_trigger_mode # VSCOPE_TRG_DISABLED
    /\ (current_delta * d.last_delta) <= 0
    /\ IF current_delta > 0
       THEN d.vscope_trigger_mode # VSCOPE_TRG_FALLING
       ELSE d.vscope_trigger_mode # VSCOPE_TRG_RISING

\* Whether vscope_check_trigger calls vscopeTrigger.
TriggerFires(d, current_delta) ==
    /\ ~d.trigger_invalid
    /\ d.vscope_trigger_mode # VSCOPE_TRG_DISABLED
    /\ (current_delta * d.last_delta) < 0
    /\ IF current_delta > 0
       THEN d.vscope_trigger_mode # VSCOPE_TRG_FALLING
       ELSE d.vscope_trigger_mode # VSCOPE_TRG_RISING

vscope_check_trigger(w) ==
    LET d == w.dev
        current_delta == CurrentDelta(w)
        t == IF TriggerFires(d, current_delta) THEN vscopeTrigger(d) ELSE d
    IN  [t EXCEPT !.last_delta = current_delta, !.trigger_invalid = FALSE]

\* The HALTED case without the store that clears snapshot_valid.
AcquireHaltedKeepsSnapshot(d) ==
    [d EXCEPT
       !.vscope_index = 0,
       !.vscope_state = IF d.vscope_request = VSCOPE_RUNNING THEN VSCOPE_RUNNING ELSE @]

\* case VSCOPE_HALTED of vscopeAcquire.
AcquireHalted(d) ==
    [d EXCEPT
       !.vscope_index = 0,
       !.vscope_state = IF d.vscope_request = VSCOPE_RUNNING THEN VSCOPE_RUNNING ELSE @,
       !.snapshot_valid = IF d.vscope_request = VSCOPE_RUNNING THEN FALSE ELSE @]

\* case VSCOPE_RUNNING of vscopeAcquire.
AcquireRunning(w, d) ==
    LET h == IF d.vscope_request = VSCOPE_HALTED
             THEN [d EXCEPT !.vscope_state = VSCOPE_HALTED] ELSE d
        m == vscope_capture_snapshot_meta([w EXCEPT !.dev = h])
        a == IF h.vscope_request # VSCOPE_ACQUIRING THEN h
             ELSE IF h.vscope_acq_time = 0
             THEN [m EXCEPT !.vscope_state = VSCOPE_HALTED,
                            !.vscope_first_element = m.vscope_index,
                            !.snapshot_valid = TRUE]
             ELSE [m EXCEPT !.vscope_state = VSCOPE_ACQUIRING,
                            !.run_index = 1]
    IN  vscope_save_frame(w, a)

\* The ACQUIRING case with the completion test one tick late.
AcquireAcquiringLate(w, d) ==
    IF d.run_index = d.vscope_acq_time + 1
    THEN [d EXCEPT !.vscope_state = VSCOPE_HALTED,
                   !.vscope_first_element = d.vscope_index,
                   !.snapshot_valid = TRUE]
    ELSE vscope_save_frame(w, [d EXCEPT !.run_index = (d.run_index + 1) % 65536])

\* The ACQUIRING case giving the capture up for a requested run.
AcquireAcquiringObeysRequest(w, d) ==
    IF d.vscope_request = VSCOPE_RUNNING
    THEN [d EXCEPT !.vscope_state = VSCOPE_RUNNING]
    ELSE IF d.run_index = d.vscope_acq_time
    THEN [d EXCEPT !.vscope_state = VSCOPE_HALTED,
                   !.vscope_first_element = d.vscope_index,
                   !.snapshot_valid = TRUE]
    ELSE vscope_save_frame(w, [d EXCEPT !.run_index = (d.run_index + 1) % 65536])

\* case VSCOPE_ACQUIRING of vscopeAcquire.
AcquireAcquiring(w, d) ==
    IF d.run_index = d.vscope_acq_time
    THEN [d EXCEPT !.vscope_state = VSCOPE_HALTED,
                   !.vscope_first_element = d.vscope_index,
                   !.snapshot_valid = TRUE]
    ELSE vscope_save_frame(w, [d EXCEPT !.run_index = (d.run_index + 1) % 65536])

\* The switch with MISCONFIGURED handled by the HALTED case.
AcquireSwitchDefaultHalted(w, d) ==
    CASE d.vscope_state = VSCOPE_RUNNING -> AcquireRunning(w, d)
      [] d.vscope_state = VSCOPE_ACQUIRING -> AcquireAcquiring(w, d)
      [] OTHER -> AcquireHalted(d)

\* The switch on vscope_state, after the trigger check.
AcquireSwitch(w, d) ==
    CASE d.vscope_state = VSCOPE_HALTED -> AcquireHalted(d)
      [] d.vscope_state = VSCOPE_RUNNING -> AcquireRunning(w, d)
      [] d.vscope_state = VSCOPE_ACQUIRING -> AcquireAcquiring(w, d)
      [] OTHER -> d

\* vscopeAcquire without the divider: every call gets past it.
TickEveryCall(d) == TRUE

\* Whether this call of vscopeAcquire gets past the divider.
TickEffective(d) == ~(d.divider_ticks + 1 < d.vscope_divider)

vscopeAcquire(w) ==
    IF ~TickEffective(w.dev)
    THEN [w.dev EXCEPT !.divider_ticks = @ + 1]
    ELSE LET z == [w EXCEPT !.dev.divider_ticks = 0]
         IN  AcquireSwitch(z, vscope_check_trigger(z))

(***************************************************************************)
(* Frame receiver                                                          *)
(***************************************************************************)
VSCOPE_FRAME_TIMEOUT_US == 2
\* Width of the microsecond clock: now_us and rx_last_us wrap at CLOCK_MOD.
CLOCK_MOD == 8

vscope_reset_rx(d) ==
    [d EXCEPT !.rx_state = VS_RX_IDLE, !.rx_expected_len = 0, !.rx_index = 0,
              !.rx_buf = << >>]

\* The IDLE case starting a frame at any byte.
RxIdleAnyByte(w, byte, now) ==
    [w EXCEPT !.dev.rx_state = VS_RX_LEN, !.dev.rx_last_us = now]

\* The IDLE case of the byte loop: only SYNC starts a frame.
RxIdleByte(w, byte, now) ==
    IF byte = VSCOPE_SYNC_BYTE
    THEN [w EXCEPT !.dev.rx_state = VS_RX_LEN, !.dev.rx_last_us = now]
    ELSE w

\* The LEN case taking any byte as the length of the frame.
RxLenAnyByte(w, byte, now) ==
    [w EXCEPT !.dev.rx_expected_len = byte,
              !.dev.rx_index = 0,
              !.dev.rx_buf = << >>,
              !.dev.rx_state = VS_RX_DATA,
              !.dev.rx_last_us = now]

\* The LEN case of the byte loop.
RxLenByte(w, byte, now) ==
    IF byte < 2 \/ byte > VSCOPE_MAX_PAYLOAD + 2
    THEN [w EXCEPT !.dev = [vscope_reset_rx(w.dev) EXCEPT !.rx_last_us = now]]
    ELSE [w EXCEPT !.dev.rx_expected_len = byte,
                   !.dev.rx_index = 0,
                   !.dev.rx_buf = << >>,
                   !.dev.rx_state = VS_RX_DATA,
                   !.dev.rx_last_us = now]

\* One iteration of the byte loop of vscopeFeed.
FeedByte(w, byte, now) ==
    LET d == w.dev
    IN  CASE d.rx_state = VS_RX_IDLE -> RxIdleByte(w, byte, now)
          [] d.rx_state = VS_RX_LEN -> RxLenByte(w, byte, now)
          [] d.rx_state = VS_RX_DATA ->
                LET buf == Append(d.rx_buf, byte)
                    s == [w EXCEPT !.dev.rx_buf = buf,
                                   !.dev.rx_index = d.rx_index + 1,
                                   !.dev.rx_last_us = now]
                    n == d.rx_expected_len
                IN  IF d.rx_index + 1 >= n
                    THEN LET crc == buf[n]
                             calc == vscope_crc8(SubSeq(buf, 1, n - 1))
                             h == IF crc = calc
                                  THEN vscope_handle_frame(s, buf[1], SubSeq(buf, 2, n - 1))
                                  ELSE s
                         IN  [h EXCEPT !.dev = vscope_reset_rx(h.dev)]
                    ELSE s
          [] OTHER -> [w EXCEPT !.dev = vscope_reset_rx(d)]

RECURSIVE FeedLoop(_, _, _, _)
FeedLoop(w, data, i, now) ==
    IF i > Len(data) THEN w
    ELSE FeedLoop(FeedByte(w, data[i], now), data, i + 1, now)

\* vscopeFeed without the timeout test on entry.
FeedNoTimeout(w, data, now) ==
    IF Len(data) = 0 THEN w ELSE FeedLoop(w, data, 1, now)

\* vscopeFeed discarding a partial frame on every entry.
FeedAlwaysResets(w, data, now) ==
    IF Len(data) = 0 THEN w
    ELSE FeedLoop([w EXCEPT !.dev = vscope_reset_rx(w.dev)], data, 1, now)

vscopeFeed(w, data, now) ==
    IF Len(data) = 0 THEN w
    ELSE LET d == w.dev
             timed_out == d.rx_state # VS_RX_IDLE
                            /\ ((now - d.rx_last_us) % CLOCK_MOD) > VSCOPE_FRAME_TIMEOUT_US
         IN  FeedLoop(IF timed_out THEN [w EXCEPT !.dev = vscope_reset_rx(d)] ELSE w,
                      data, 1, now)

(***************************************************************************)
(* History of the run, kept beside the program state to state properties.  *)
(*   op         the entry point that ran last and has not returned yet     *)
(*              ("register", "register_rt" and "init" for calls made after *)
(*              vscopeInit)                                                *)
(*   cmd        the (type, payload) it dispatched, if it was a dispatch    *)
(*   fed        the bytes it was given, if it was vscopeFeed               *)
(*   effective  that call was a tick that got past the divider             *)
(*   fired      the trigger detector called vscopeTrigger in that tick     *)
(*   age[r]     rows written after row r was written in this run; BUF when *)
(*              row r was not written in this run                          *)
(*   post[r]    row r was written by the tick that left RUNNING for a      *)
(*              capture, or by a later tick of that capture                *)
(*   acq_ticks  effective ticks after the tick that left RUNNING           *)
(*   acq_rows   rows written from that tick on                             *)
(*   prev_delta the delta the last effective tick computed                 *)
(*   fresh      a SET_TRIGGER store was made and no effective tick has run *)
(*              since                                                      *)
(*   stream     the bytes given to vscopeFeed by FeedMore, in order        *)
(*   base       the device when the first of them was fed                  *)
(*              (or, for a preempted snapshot handler, the device when the *)
(*              handler tested snapshot_valid)                             *)
(*   late       some call after the first came more than the frame timeout *)
(*              after the call before it                                   *)
(*   set        the payload of the last accepted SET_TIMING, SET_TRIGGER   *)
(*              and SET_CHANNEL_MAP that DispatchSet saw, << >> before any *)
(*   armed      a SET_STATE(RUNNING) was accepted, and since then no       *)
(*              SET_STATE(HALTED) was accepted and no tick halted the      *)
(*              device                                                     *)
(***************************************************************************)
NoCmd == [type |-> -1, payload |-> << >>]

HistInit ==
    [ op |-> "idle", cmd |-> NoCmd, fed |-> << >>, effective |-> FALSE, fired |-> FALSE,
      age |-> [r \in Rows |-> VSCOPE_BUFFER_SIZE],
      post |-> [r \in Rows |-> FALSE],
      acq_ticks |-> 0, acq_rows |-> 0, prev_delta |-> 0, fresh |-> FALSE,
      stream |-> << >>, base |-> DevZero, late |-> FALSE,
      set |-> [timing |-> << >>, trigger |-> << >>, map |-> << >>],
      armed |-> FALSE ]

Min(a, b) == IF a < b THEN a ELSE b

\* The history after a tick that took the device from d to e.  A run starts
\* with the tick HALTED -> RUNNING, which forgets the rows of earlier runs.
HistTick(h, d, e, effective, fired, delta) ==
    LET saved == /\ effective
                 /\ d.vscope_state \in {VSCOPE_RUNNING, VSCOPE_ACQUIRING}
                 /\ e.vscope_index # d.vscope_index
        start == d.vscope_state = VSCOPE_HALTED /\ e.vscope_state = VSCOPE_RUNNING
        trig == /\ d.vscope_state = VSCOPE_RUNNING
                /\ \/ e.vscope_state = VSCOPE_ACQUIRING
                   \/ e.vscope_state = VSCOPE_HALTED /\ e.snapshot_valid
        acq == effective /\ d.vscope_state = VSCOPE_ACQUIRING
    IN  [ op |-> "tick", cmd |-> NoCmd, fed |-> << >>,
          effective |-> effective, fired |-> fired,
          age |-> IF start THEN [r \in Rows |-> VSCOPE_BUFFER_SIZE]
                  ELSE IF saved
                  THEN [r \in Rows |-> IF r = d.vscope_index THEN 0
                                       ELSE Min(h.age[r] + 1, VSCOPE_BUFFER_SIZE)]
                  ELSE h.age,
          post |-> IF start THEN [r \in Rows |-> FALSE]
                   ELSE IF saved THEN [h.post EXCEPT ![d.vscope_index] = trig \/ acq]
                   ELSE h.post,
          acq_ticks |-> IF start \/ trig THEN 0
                        ELSE IF acq THEN h.acq_ticks + 1
                        ELSE h.acq_ticks,
          acq_rows |-> IF start THEN 0
                       ELSE IF trig THEN (IF saved THEN 1 ELSE 0)
                       ELSE IF acq /\ saved THEN h.acq_rows + 1
                       ELSE h.acq_rows,
          prev_delta |-> IF effective THEN delta ELSE h.prev_delta,
          fresh |-> h.fresh /\ ~effective,
          stream |-> h.stream, base |-> h.base, late |-> h.late, set |-> h.set,
          armed |-> h.armed /\ ~(d.vscope_state # VSCOPE_HALTED
                                    /\ e.vscope_state = VSCOPE_HALTED) ]

\* The history after vscope_handle_frame answered (type, payload) with reply.
HistDispatch(h, type, payload, reply) ==
    LET accepted == /\ type = VSCOPE_MSG_SET_STATE
                    /\ Len(reply) = 1
                    /\ reply[1].type = VSCOPE_MSG_SET_STATE
    IN  [h EXCEPT !.op = "dispatch",
                  !.cmd = [type |-> type, payload |-> payload],
                  !.fresh = @ \/ (/\ Len(reply) = 1
                                  /\ reply[1].type = VSCOPE_MSG_SET_TRIGGER),
                  !.armed = IF accepted /\ payload[1] = VSCOPE_RUNNING THEN TRUE
                            ELSE IF accepted /\ payload[1] = VSCOPE_HALTED THEN FALSE
                            ELSE @]

(***************************************************************************)
(* Actions                                                                 *)
(***************************************************************************)
World == [dev |-> dev, var_mem |-> var_mem, rt_mem |-> rt_mem, tx |-> << >>]

\* No handler is in progress in the task context.
TaskIdle == [pc |-> "idle", payload |-> << >>, pending |-> {}]

Idle == hist.op = "idle" /\ task.pc = "idle"

Ready == dev.registration_locked /\ Idle

Init ==
    /\ dev = DevZero
    /\ var_mem = [k \in VarIds |-> 1]
    /\ rt_mem = [k \in RtIds |-> 0]
    /\ tx = << >>
    /\ now_us = 0
    /\ task = TaskIdle
    /\ hist = HistInit

\* The application registers its next float before vscopeInit.
RegisterVar ==
    /\ Idle /\ ~dev.registration_locked /\ dev.var_count < VSCOPE_MAX_VARIABLES
    /\ dev' = vscopeRegisterVar(dev, VarName(dev.var_count), dev.var_count)
    /\ UNCHANGED << var_mem, rt_mem, tx, now_us, task, hist >>

RegisterRtBuffer ==
    /\ Idle /\ ~dev.registration_locked /\ dev.rt_count < VSCOPE_RT_BUFFER_LEN
    /\ dev' = vscopeRegisterRtBuffer(dev, RtName(dev.rt_count), dev.rt_count)
    /\ UNCHANGED << var_mem, rt_mem, tx, now_us, task, hist >>

\* vscopeRegisterVar called after vscopeInit.
RegisterVarLate ==
    /\ Ready
    /\ \E k \in VarIds : dev' = vscopeRegisterVar(dev, VarName(k), k)
    /\ hist' = [hist EXCEPT !.op = "register"]
    /\ UNCHANGED << var_mem, rt_mem, tx, now_us, task >>

\* vscopeRegisterRtBuffer called after vscopeInit.
RegisterRtBufferLate ==
    /\ Ready
    /\ \E k \in RtIds : dev' = vscopeRegisterRtBuffer(dev, RtName(k), k)
    /\ hist' = [hist EXCEPT !.op = "register_rt"]
    /\ UNCHANGED << var_mem, rt_mem, tx, now_us, task >>

\* vscopeInit called again on a device that is in use.
ReInit ==
    /\ Ready
    /\ dev' = vscopeInit(dev, DeviceName, VSCOPE_ISR_KHZ)
    /\ hist' = [hist EXCEPT !.op = "init"]
    /\ UNCHANGED << var_mem, rt_mem, tx, now_us, task >>

InitCall ==
    /\ Idle /\ ~dev.registration_locked
    /\ dev' = vscopeInit(dev, DeviceName, VSCOPE_ISR_KHZ)
    /\ UNCHANGED << var_mem, rt_mem, tx, now_us, task, hist >>

\* The ISR calls vscopeAcquire; it may preempt a handler of the task context.
Tick ==
    /\ dev.registration_locked
    /\ hist.op = "idle"
    /\ LET w == World
           effective == TickEffective(dev)
           fired == effective /\ TriggerFires(dev, CurrentDelta(w))
       IN  /\ dev' = vscopeAcquire(w)
           /\ hist' = HistTick(hist, dev, dev', effective, fired, CurrentDelta(w))
    /\ UNCHANGED << var_mem, rt_mem, tx, now_us, task >>

\* The application calls vscopeTrigger.
ManualTrigger ==
    /\ Ready
    /\ dev' = vscopeTrigger(dev)
    /\ UNCHANGED << var_mem, rt_mem, tx, now_us, task, hist >>

\* vscope_handle_frame runs on a received (type, payload).
Dispatch(type, payload) ==
    /\ Ready
    /\ LET r == vscope_handle_frame(World, type, payload)
       IN  /\ dev' = r.dev
           /\ rt_mem' = r.rt_mem
           /\ tx' = r.tx
           /\ hist' = HistDispatch(hist, type, payload, r.tx)
    /\ UNCHANGED << var_mem, now_us, task >>

\* The transport calls vscopeFeed(data, len, now).
Feed(data, now) ==
    /\ Ready
    /\ LET r == vscopeFeed(World, data, now)
       IN  /\ dev' = r.dev
           /\ rt_mem' = r.rt_mem
           /\ tx' = r.tx
    /\ now_us' = now
    /\ hist' = [hist EXCEPT !.op = "feed", !.fed = data]
    /\ UNCHANGED << var_mem, task >>

\* The entry point returns; the transport has taken the frames.
CallReturn ==
    /\ hist.op # "idle"
    /\ tx' = << >>
    /\ hist' = [hist EXCEPT !.op = "idle", !.cmd = NoCmd, !.fed = << >>,
                            !.effective = FALSE, !.fired = FALSE]
    /\ UNCHANGED << dev, var_mem, rt_mem, now_us, task >>

\* The application changes one of its sampled floats.
SetVar(k, v) ==
    /\ Ready
    /\ k < dev.var_count
    /\ var_mem[k] # v
    /\ var_mem' = [var_mem EXCEPT ![k] = v]
    /\ UNCHANGED << dev, rt_mem, tx, now_us, task, hist >>

(***************************************************************************)
(* Commands the host sends                                                 *)
(***************************************************************************)
Cmd(type, payload) == [type |-> type, payload |-> payload]

SetTimingCmd(divider, pre_trig) ==
    Cmd(VSCOPE_MSG_SET_TIMING, vscope_write_u32(divider) \o vscope_write_u32(pre_trig))

SetStateCmd(s) == Cmd(VSCOPE_MSG_SET_STATE, << s >>)

GetSnapshotDataCmd(start, count) ==
    Cmd(VSCOPE_MSG_GET_SNAPSHOT_DATA, vscope_write_u16(start) \o << count >>)

SetTriggerCmd(threshold, channel, mode) ==
    Cmd(VSCOPE_MSG_SET_TRIGGER, vscope_write_f32(threshold) \o << channel, mode >>)

\* Timing, state and snapshot commands, in and out of range.
AcqCmds ==
    { SetStateCmd(s) : s \in 0 .. 3 }
      \cup { SetTimingCmd(1, p) : p \in 0 .. (VSCOPE_BUFFER_SIZE + 1) }
      \cup { SetTimingCmd(dv, 1) : dv \in 0 .. MaxDivider }
      \cup { GetSnapshotDataCmd(0, 1),
             GetSnapshotDataCmd(VSCOPE_BUFFER_SIZE - 1, 2),
             Cmd(VSCOPE_MSG_GET_SNAPSHOT_DATA, << 0, 0 >>),
             Cmd(VSCOPE_MSG_TRIGGER, << >>),
             Cmd(VSCOPE_MSG_GET_SNAPSHOT_HEADER, << >>) }

(***************************************************************************)
(* The acquisition engine under timing, state and snapshot commands, with  *)
(* every entry point running to completion.                                *)
(***************************************************************************)
NextAcq ==
    \/ RegisterVar
    \/ InitCall
    \/ Tick
    \/ ManualTrigger
    \/ \E c \in AcqCmds : Dispatch(c.type, c.payload)
    \/ CallReturn

SpecAcq == Init /\ [][NextAcq]_vars

(***************************************************************************)
(* Properties of the acquisition engine (SpecAcq)                          *)
(***************************************************************************)
ErrorFrame(code) == [type |-> VSCOPE_MSG_ERROR, payload |-> << code >>]

\* The timing fields of a device.
Timing(d) == << d.vscope_divider, d.vscope_pre_trig, d.vscope_acq_time >>

\* C2: when an effective tick moves RUNNING to ACQUIRING (acq_time > 0), no
\* snapshot is valid yet and one row has been written; every later effective
\* tick of the capture either is the acq_time-th one, and then it halts the
\* device with snapshot_valid set and exactly acq_time rows written since the
\* transition tick, or is an earlier one, and then the device stays in
\* ACQUIRING without a valid snapshot; an effective tick that sees request =
\* ACQUIRING in RUNNING with acq_time = 0 halts with snapshot_valid set.
C2_CaptureLength ==
    [][ (hist.op = "idle" /\ hist'.op = "tick" /\ hist'.effective) =>
          /\ (dev.vscope_state = VSCOPE_RUNNING /\ dev'.vscope_state = VSCOPE_ACQUIRING) =>
                /\ dev.vscope_acq_time > 0
                /\ ~dev'.snapshot_valid
                /\ hist'.acq_ticks = 0
                /\ hist'.acq_rows = 1
          /\ dev.vscope_state = VSCOPE_ACQUIRING =>
                /\ dev'.vscope_acq_time = dev.vscope_acq_time
                /\ IF hist'.acq_ticks = dev.vscope_acq_time
                   THEN /\ dev'.vscope_state = VSCOPE_HALTED
                        /\ dev'.snapshot_valid
                        /\ hist'.acq_rows = dev.vscope_acq_time
                   ELSE /\ hist'.acq_ticks < dev.vscope_acq_time
                        /\ dev'.vscope_state = VSCOPE_ACQUIRING
                        /\ ~dev'.snapshot_valid
          /\ (/\ dev.vscope_state = VSCOPE_RUNNING
              /\ dev'.vscope_request = VSCOPE_ACQUIRING
              /\ dev.vscope_acq_time = 0) =>
                /\ dev'.vscope_state = VSCOPE_HALTED
                /\ dev'.snapshot_valid
                /\ ~dev.snapshot_valid ]_vars

\* A capture of two post-trigger rows at divider 2 has just completed.
C2_Witness ==
    /\ hist.op = "tick" /\ hist.effective
    /\ dev.vscope_divider = 2
    /\ dev.vscope_acq_time = 2
    /\ hist.acq_ticks = 2 /\ hist.acq_rows = 2
    /\ dev.vscope_state = VSCOPE_HALTED /\ dev.snapshot_valid

\* C3: in a completed snapshot of a run that wrote every row, the row at
\* offset k from first_element is the (BUF-1-k)-th newest row (offset 0 the
\* oldest, offsets in sampling order), and it was sampled before the tick that
\* left RUNNING exactly when k < pre_trig.
C3_SnapshotOrder ==
    (dev.snapshot_valid /\ \A r \in Rows : hist.age[r] < VSCOPE_BUFFER_SIZE) =>
        \A k \in Rows :
            LET r == (dev.vscope_first_element + k) % VSCOPE_BUFFER_SIZE
            IN  /\ hist.age[r] = VSCOPE_BUFFER_SIZE - 1 - k
                /\ (k < dev.snapshot_meta.pre_trig) <=> ~hist.post[r]

\* C4: snapshot_valid is set only by an effective tick that completes a
\* capture (ACQUIRING to HALTED, or RUNNING to HALTED with acq_time = 0), is
\* cleared only by the tick that moves HALTED to RUNNING, and that tick does
\* clear it; whenever it is set the state is HALTED; vscopeInit leaves it
\* clear.
C4_SnapshotValidInterval ==
    [][ /\ (~dev.snapshot_valid /\ dev'.snapshot_valid) =>
              /\ hist'.op = "tick" /\ hist'.effective
              /\ dev'.vscope_state = VSCOPE_HALTED
              /\ \/ dev.vscope_state = VSCOPE_ACQUIRING
                 \/ dev.vscope_state = VSCOPE_RUNNING /\ dev.vscope_acq_time = 0
        /\ (dev.snapshot_valid /\ ~dev'.snapshot_valid) =>
              /\ hist'.op = "tick"
              /\ dev.vscope_state = VSCOPE_HALTED
              /\ dev'.vscope_state = VSCOPE_RUNNING
        /\ (dev.vscope_state = VSCOPE_HALTED /\ dev'.vscope_state = VSCOPE_RUNNING) =>
              ~dev'.snapshot_valid
        /\ dev'.snapshot_valid => dev'.vscope_state = VSCOPE_HALTED
        /\ dev'.vscope_state \in {VSCOPE_RUNNING, VSCOPE_ACQUIRING, VSCOPE_MISCONFIGURED} =>
              ~dev'.snapshot_valid
        /\ (~dev.registration_locked /\ dev'.registration_locked) =>
              ~dev'.snapshot_valid ]_vars

\* A second run has started after a completed capture: the tick that left
\* HALTED cleared the snapshot of the first run.
C4_Witness ==
    /\ hist.op = "tick"
    /\ dev.vscope_state = VSCOPE_RUNNING
    /\ ~dev.snapshot_valid
    /\ dev.snapshot_meta.pre_trig = 1
    /\ dev.vscope_index = 0

\* C5: a GET_SNAPSHOT_HEADER with empty payload or a GET_SNAPSHOT_DATA with a
\* 3-byte payload is answered with exactly one ERROR NOT_READY frame when
\* snapshot_valid is false at dispatch, and with no NOT_READY frame when it is
\* true.
C5_NotReady ==
    [][ (/\ hist.op = "idle" /\ hist'.op = "dispatch"
         /\ \/ /\ hist'.cmd.type = VSCOPE_MSG_GET_SNAPSHOT_HEADER
               /\ Len(hist'.cmd.payload) = 0
            \/ /\ hist'.cmd.type = VSCOPE_MSG_GET_SNAPSHOT_DATA
               /\ Len(hist'.cmd.payload) = 3) =>
          IF ~dev.snapshot_valid
          THEN tx' = << ErrorFrame(VSCOPE_ERR_NOT_READY) >>
          ELSE /\ Len(tx') = 1
               /\ tx'[1] # ErrorFrame(VSCOPE_ERR_NOT_READY) ]_vars

\* Snapshot rows are asked for in the middle of a capture.
C5_Witness ==
    /\ hist.op = "dispatch"
    /\ hist.cmd = GetSnapshotDataCmd(0, 1)
    /\ dev.vscope_state = VSCOPE_ACQUIRING
    /\ tx = << ErrorFrame(VSCOPE_ERR_NOT_READY) >>

\* C8: a SET_TIMING with an 8-byte payload is answered with ERROR BAD_PARAM
\* and leaves divider, pre_trig and acq_time unchanged if divider = 0 or
\* pre_trig > BUF or the state is not HALTED at dispatch; otherwise it stores
\* divider and pre_trig, sets acq_time = BUF - pre_trig and echoes the new
\* timing.
C8_SetTiming ==
    [][ (/\ hist.op = "idle" /\ hist'.op = "dispatch"
         /\ hist'.cmd.type = VSCOPE_MSG_SET_TIMING
         /\ Len(hist'.cmd.payload) = 8) =>
          LET divider == vscope_read_u32(SubSeq(hist'.cmd.payload, 1, 4))
              pre_trig == vscope_read_u32(SubSeq(hist'.cmd.payload, 5, 8))
          IN  IF \/ divider = 0
                 \/ pre_trig > VSCOPE_BUFFER_SIZE
                 \/ dev.vscope_state # VSCOPE_HALTED
              THEN /\ tx' = << ErrorFrame(VSCOPE_ERR_BAD_PARAM) >>
                   /\ Timing(dev') = Timing(dev)
              ELSE /\ Timing(dev') = << divider, pre_trig, VSCOPE_BUFFER_SIZE - pre_trig >>
                   /\ tx' = << [type |-> VSCOPE_MSG_SET_TIMING,
                                payload |-> vscope_write_u32(divider)
                                              \o vscope_write_u32(pre_trig)] >> ]_vars

\* SET_TIMING(2, 1) was accepted over the initial timing.
C8_Witness ==
    /\ hist.op = "dispatch"
    /\ hist.cmd = SetTimingCmd(2, 1)
    /\ Timing(dev) = << 2, 1, VSCOPE_BUFFER_SIZE - 1 >>
    /\ Len(tx) = 1 /\ tx[1].type = VSCOPE_MSG_SET_TIMING

\* C9: once a SET_STATE(RUNNING) has been accepted and the device has not been
\* halted since, every dispatched SET_TIMING is answered with ERROR BAD_PARAM
\* and changes no timing field.
C9_TimingLockedAfterRun ==
    [][ (/\ hist.armed
         /\ hist.op = "idle" /\ hist'.op = "dispatch"
         /\ hist'.cmd.type = VSCOPE_MSG_SET_TIMING) =>
          /\ tx' = << ErrorFrame(VSCOPE_ERR_BAD_PARAM) >>
          /\ Timing(dev') = Timing(dev) ]_vars

(***************************************************************************)
(* The trigger detector under changing samples and SET_TRIGGER commands,   *)
(* with every entry point running to completion.                           *)
(***************************************************************************)
TrigCmds ==
    { SetTriggerCmd(th, ch, m) :
          th \in Floats, ch \in Channels, m \in VSCOPE_TRG_DISABLED .. VSCOPE_TRG_BOTH }
      \cup { SetTriggerCmd(0, VSCOPE_NUM_CHANNELS, VSCOPE_TRG_RISING),
             SetTriggerCmd(0, 0, VSCOPE_TRG_BOTH + 1),
             Cmd(VSCOPE_MSG_GET_TRIGGER, << >>) }

NextTrig ==
    \/ RegisterVar
    \/ InitCall
    \/ Tick
    \/ \E v \in Floats : SetVar(0, v)
    \/ \E c \in TrigCmds : Dispatch(c.type, c.payload)
    \/ CallReturn

SpecTrig == Init /\ [][NextTrig]_vars

SetTriggerAccepted(payload) ==
    /\ Len(payload) = 6
    /\ payload[5] < VSCOPE_NUM_CHANNELS
    /\ payload[6] <= VSCOPE_TRG_BOTH

\* The statics the handler stores to.
SetTriggerFields ==
    { "vscope_trigger_threshold", "vscope_trigger_channel", "vscope_trigger_mode",
      "trigger_invalid" }

\* What the handler stores, by static.
SetTriggerStores(payload) ==
    [ vscope_trigger_threshold |-> vscope_read_f32(SubSeq(payload, 1, 4)),
      vscope_trigger_channel |-> payload[5],
      vscope_trigger_mode |-> payload[6],
      trigger_invalid |-> TRUE ]

\* The handler has validated its payload and is about to store.
SetTriggerEnter(payload) ==
    /\ Ready
    /\ SetTriggerAccepted(payload)
    /\ task' = [pc |-> "set_trigger", payload |-> payload,
                pending |-> SetTriggerFields]
    /\ UNCHANGED << dev, var_mem, rt_mem, tx, now_us, hist >>

\* One of the handler's stores reaches memory.
SetTriggerStore(f) ==
    /\ hist.op = "idle"
    /\ task.pc = "set_trigger"
    /\ f \in task.pending
    /\ dev' = [dev EXCEPT ![f] = SetTriggerStores(task.payload)[f]]
    /\ task' = [task EXCEPT !.pending = @ \ {f}]
    /\ hist' = [hist EXCEPT !.fresh = @ \/ f # "trigger_invalid"]
    /\ UNCHANGED << var_mem, rt_mem, tx, now_us >>

\* vscope_send_trigger(VSCOPE_MSG_SET_TRIGGER), and the handler returns.
SetTriggerReply ==
    /\ hist.op = "idle"
    /\ task.pc = "set_trigger"
    /\ task.pending = {}
    /\ LET r == vscope_send_trigger(World, VSCOPE_MSG_SET_TRIGGER)
       IN  /\ tx' = r.tx
           /\ hist' = HistDispatch(hist, VSCOPE_MSG_SET_TRIGGER, task.payload, r.tx)
    /\ task' = TaskIdle
    /\ UNCHANGED << dev, var_mem, rt_mem, now_us >>

IsrCmds ==
    { SetTriggerCmd(th, ch, m) :
          th \in Floats, ch \in Channels, m \in {VSCOPE_TRG_DISABLED, VSCOPE_TRG_BOTH} }

NextIsr ==
    \/ RegisterVar
    \/ InitCall
    \/ Tick
    \/ \E v \in Floats : SetVar(0, v)
    \/ \E c \in IsrCmds : SetTriggerEnter(c.payload)
    \/ \E f \in SetTriggerFields : SetTriggerStore(f)
    \/ SetTriggerReply
    \/ CallReturn

SpecIsr == Init /\ [][NextIsr]_vars

\* C7: the first effective tick after a SET_TRIGGER store of threshold,
\* channel or mode emits no trigger, wherever in the handler the tick runs.
C7_FirstTickSuppressed ==
    [][ (/\ hist.op = "idle" /\ hist'.op = "tick" /\ hist'.effective
         /\ hist.fresh) => ~hist'.fired ]_vars

(***************************************************************************)
(* The channel map under SET_CHANNEL_MAP and GET_CHANNEL_MAP, with every   *)
(* entry point running to completion.                                      *)
(***************************************************************************)
MapIds == [Channels -> 0 .. VSCOPE_MAX_VARIABLES]

MapCmds ==
    { Cmd(VSCOPE_MSG_SET_CHANNEL_MAP, FnSeq(ids, 0, VSCOPE_NUM_CHANNELS - 1)) :
          ids \in MapIds }
      \cup { Cmd(VSCOPE_MSG_SET_CHANNEL_MAP, << 0 >>),
             Cmd(VSCOPE_MSG_GET_CHANNEL_MAP, << >>),
             SetStateCmd(VSCOPE_RUNNING),
             SetStateCmd(VSCOPE_HALTED) }

NextMap ==
    \/ RegisterVar
    \/ InitCall
    \/ Tick
    \/ \E c \in MapCmds : Dispatch(c.type, c.payload)
    \/ CallReturn

SpecMap == Init /\ [][NextMap]_vars

\* C10: a SET_CHANNEL_MAP with N_CH payload bytes of which any is >= var_count
\* is answered with ERROR BAD_PARAM and changes no channel-map entry and no
\* sample pointer, so that GET_CHANNEL_MAP still returns the prior map; with
\* all ids < var_count every entry and pointer is replaced and the new map is
\* echoed.
C10_ChannelMapAllOrNothing ==
    [][ (/\ hist.op = "idle" /\ hist'.op = "dispatch"
         /\ hist'.cmd.type = VSCOPE_MSG_SET_CHANNEL_MAP
         /\ Len(hist'.cmd.payload) = VSCOPE_NUM_CHANNELS) =>
          LET ids == hist'.cmd.payload
              after == [dev |-> dev', var_mem |-> var_mem', rt_mem |-> rt_mem',
                        tx |-> << >>]
          IN  IF \E i \in Channels : ids[i + 1] >= dev.var_count
              THEN /\ tx' = << ErrorFrame(VSCOPE_ERR_BAD_PARAM) >>
                   /\ dev'.channel_map = dev.channel_map
                   /\ dev'.vscope_frame = dev.vscope_frame
                   /\ vscope_handle_get_channel_map(after).tx
                         = vscope_handle_get_channel_map(World).tx
              ELSE /\ \A i \in Channels :
                         /\ dev'.channel_map[i] = ids[i + 1]
                         /\ dev'.vscope_frame[i] = dev.var_catalog[ids[i + 1]].ptr
                   /\ tx' = << [type |-> VSCOPE_MSG_SET_CHANNEL_MAP, payload |-> ids] >> ]_vars

\* A map whose second id is out of range was refused on a device whose map
\* differs from it in the first channel.
C10_Witness ==
    /\ hist.op = "dispatch"
    /\ hist.cmd.type = VSCOPE_MSG_SET_CHANNEL_MAP
    /\ Len(hist.cmd.payload) = VSCOPE_NUM_CHANNELS
    /\ hist.cmd.payload[1] < dev.var_count
    /\ hist.cmd.payload[1] # dev.channel_map[0]
    /\ hist.cmd.payload[2] >= dev.var_count
    /\ tx = << ErrorFrame(VSCOPE_ERR_BAD_PARAM) >>

(***************************************************************************)
(* The receiver fed whole frames, with good and bad CRC, of every message  *)
(* type and of unknown types, in every device state.                       *)
(***************************************************************************)
MsgTypes == VSCOPE_MSG_GET_INFO .. VSCOPE_MSG_SET_TRIGGER

\* A type no case of vscope_handle_frame names.
UnknownType == 127

RxCmds ==
    { Cmd(ty, << >>) : ty \in MsgTypes \cup {UnknownType, VSCOPE_MSG_ERROR} }
      \cup { Cmd(ty, << 0 >>) : ty \in MsgTypes \cup {UnknownType} }
      \cup { SetStateCmd(VSCOPE_RUNNING),
             SetTimingCmd(1, VSCOPE_BUFFER_SIZE - 1),
             GetSnapshotDataCmd(0, 1),
             SetTriggerCmd(0, 0, VSCOPE_TRG_DISABLED),
             Cmd(VSCOPE_MSG_SET_CHANNEL_MAP, FnSeq([i \in Channels |-> i], 0,
                                                   VSCOPE_NUM_CHANNELS - 1)),
             Cmd(VSCOPE_MSG_SET_RT_BUFFER, << 0 >> \o vscope_write_f32(0)) }

\* A frame with its CRC byte off by one.
BadCrc(frame) == [frame EXCEPT ![Len(frame)] = (@ + 1) % 256]

RxFrames ==
    { FrameBytes(c.type, c.payload) : c \in RxCmds }
      \cup { BadCrc(FrameBytes(c.type, c.payload)) : c \in RxCmds }

NextRx ==
    \/ RegisterVar
    \/ RegisterRtBuffer
    \/ InitCall
    \/ Tick
    \/ \E f \in RxFrames : Feed(f, now_us)
    \/ CallReturn

SpecRx == Init /\ [][NextRx]_vars

\* SYNC, a length byte in [2, 254], then that many bytes.
WellFramed(f) ==
    /\ Len(f) >= 4
    /\ f[1] = VSCOPE_SYNC_BYTE
    /\ f[2] >= 2 /\ f[2] <= 254
    /\ Len(f) = f[2] + 2

\* The device without its RX state.
NonRx(d) ==
    [d EXCEPT !.rx_state = VS_RX_IDLE, !.rx_expected_len = 0, !.rx_index = 0,
              !.rx_last_us = 0, !.rx_buf = << >>]

\* C1: for a whole frame fed to an initialized receiver in IDLE, if the last
\* byte is the CRC-8 of the TYPE..payload bytes then vscopeFeed transmits
\* exactly one frame; otherwise it transmits nothing and changes no state
\* other than the RX state.
C1_OneReplyPerFrame ==
    [][ (/\ hist.op = "idle" /\ hist'.op = "feed"
         /\ dev.rx_state = VS_RX_IDLE
         /\ WellFramed(hist'.fed)) =>
          LET f == hist'.fed
              n == f[2]
          IN  IF f[n + 2] = vscope_crc8(SubSeq(f, 3, n + 1))
              THEN Len(tx') = 1
              ELSE /\ tx' = << >>
                   /\ NonRx(dev') = NonRx(dev)
                   /\ var_mem' = var_mem
                   /\ rt_mem' = rt_mem ]_vars

\* A frame of an unknown type with a good CRC was answered with one ERROR
\* frame while a capture was in progress.
C1_Witness ==
    /\ hist.op = "feed"
    /\ hist.fed = FrameBytes(UnknownType, << >>)
    /\ dev.vscope_state = VSCOPE_ACQUIRING
    /\ tx = << ErrorFrame(VSCOPE_ERR_BAD_PARAM) >>

(***************************************************************************)
(* Further properties of the acquisition engine (SpecAcq)                  *)
(***************************************************************************)
\* C11: after init the write index and the first-element index stay in
\* [0, BUF); the write index changes only in an effective tick, by one modulo
\* BUF when the tick started in RUNNING or ACQUIRING and to 0 when it started
\* in HALTED.
C11_IndexRange ==
    [][ dev.registration_locked =>
          /\ dev'.vscope_index \in Rows
          /\ dev'.vscope_first_element \in Rows
          /\ dev'.vscope_index # dev.vscope_index =>
                /\ hist.op = "idle" /\ hist'.op = "tick" /\ hist'.effective
                /\ \/ /\ dev.vscope_state \in {VSCOPE_RUNNING, VSCOPE_ACQUIRING}
                      /\ dev'.vscope_index = (dev.vscope_index + 1) % VSCOPE_BUFFER_SIZE
                   \/ /\ dev.vscope_state = VSCOPE_HALTED
                      /\ dev'.vscope_index = 0 ]_vars

\* The write index has just wrapped to 0 in a run that filled the buffer.
C11_Witness ==
    /\ hist.op = "tick" /\ hist.effective
    /\ dev.vscope_state = VSCOPE_RUNNING
    /\ dev.vscope_index = 0
    /\ \A r \in Rows : hist.age[r] < VSCOPE_BUFFER_SIZE

(***************************************************************************)
(* The receiver fed a byte stream in pieces, each piece in a call of its   *)
(* own at a time of its own; the transport log tx keeps every frame sent.  *)
(***************************************************************************)
\* A whole frame without payload and one more byte.
SplitMaxLen == Len(FrameBytes(VSCOPE_MSG_GET_STATE, << >>)) + 1

\* Time between two calls: none, the frame timeout, just over it, and the
\* longest the clock can tell.
SplitGaps == { 0, VSCOPE_FRAME_TIMEOUT_US, VSCOPE_FRAME_TIMEOUT_US + 1, CLOCK_MOD - 1 }

\* SYNC, an invalid and a valid length byte, GET_STATE and its CRC.
SplitBytes ==
    { VSCOPE_SYNC_BYTE, 1, 2, VSCOPE_MSG_GET_STATE,
      vscope_crc8(<< VSCOPE_MSG_GET_STATE >>) }

SplitPieces ==
    { << a >> : a \in SplitBytes } \cup { << a, b >> : a \in SplitBytes, b \in SplitBytes }

\* vscopeFeed(data, len, now_us + gap), after earlier calls of the stream.
FeedMore(data, gap) ==
    /\ Ready
    /\ Len(hist.stream) + Len(data) <= SplitMaxLen
    /\ LET now == (now_us + gap) % CLOCK_MOD
           r == vscopeFeed(World, data, now)
       IN  /\ dev' = r.dev
           /\ rt_mem' = r.rt_mem
           /\ tx' = tx \o r.tx
           /\ now_us' = now
    /\ hist' = [hist EXCEPT
                  !.fed = data,
                  !.stream = @ \o data,
                  !.base = IF hist.stream = << >> THEN dev ELSE @,
                  !.late = @ \/ (hist.stream # << >> /\ gap > VSCOPE_FRAME_TIMEOUT_US)]
    /\ UNCHANGED << var_mem, task >>

NextSplit ==
    \/ InitCall
    \/ \E data \in SplitPieces, gap \in SplitGaps : FeedMore(data, gap)

SpecSplit == Init /\ [][NextSplit]_vars

\* The RX state without the time stamp.
RxState(d) == << d.rx_state, d.rx_expected_len, d.rx_index, d.rx_buf >>

\* C12: when every call came at most FRAME_TIMEOUT_US (modulo the clock
\* width) after the call before it, the frames sent and the RX state are
\* those of one call that feeds the whole stream.
C12_SplitInvariance ==
    ~hist.late =>
        LET r == vscopeFeed([dev |-> hist.base, var_mem |-> var_mem, rt_mem |-> rt_mem,
                             tx |-> << >>], hist.stream, 0)
        IN  /\ r.tx = tx
            /\ RxState(r.dev) = RxState(dev)

\* A GET_STATE frame whose CRC byte came in a call of its own was answered.
C12_Witness ==
    /\ ~hist.late
    /\ hist.stream = FrameBytes(VSCOPE_MSG_GET_STATE, << >>)
    /\ hist.fed = << vscope_crc8(<< VSCOPE_MSG_GET_STATE >>) >>
    /\ Len(tx) = 1 /\ tx[1].type = VSCOPE_MSG_GET_STATE
    /\ now_us # 0

\* C13: a vscopeFeed call that finds the receiver in LEN or DATA more than
\* FRAME_TIMEOUT_US (modulo the clock width) after the last received byte
\* acts as the same call on an IDLE receiver with expected length and write
\* index 0: the bytes before the gap dispatch nothing and no frame, ERROR
\* included, is sent for them.
C13_TimeoutDiscard ==
    [][ ( /\ hist'.stream # hist.stream
          /\ dev.rx_state \in {VS_RX_LEN, VS_RX_DATA}
          /\ ((now_us' - dev.rx_last_us) % CLOCK_MOD) > VSCOPE_FRAME_TIMEOUT_US )
        => LET idle == vscope_reset_rx(dev)
               r == vscopeFeed([World EXCEPT !.dev = idle], hist'.fed, now_us')
           IN  /\ dev' = r.dev
               /\ tx' = tx \o r.tx
               /\ ( \A i \in 1 .. Len(hist'.fed) : hist'.fed[i] # VSCOPE_SYNC_BYTE )
                    => /\ dev'.rx_state = VS_RX_IDLE
                       /\ dev'.rx_expected_len = 0
                       /\ dev'.rx_index = 0
                       /\ tx' = tx ]_vars

\* The CRC byte of a GET_STATE frame came after the timeout: no reply.
C13_Witness ==
    /\ hist.late
    /\ hist.stream = FrameBytes(VSCOPE_MSG_GET_STATE, << >>)
    /\ hist.fed = << vscope_crc8(<< VSCOPE_MSG_GET_STATE >>) >>
    /\ tx = << >>
    /\ dev.rx_state = VS_RX_IDLE /\ dev.rx_expected_len = 0 /\ dev.rx_index = 0

\* The bytes of s from its first SYNC on.
RECURSIVE AfterJunk(_)
AfterJunk(s) ==
    IF s = << >> \/ s[1] = VSCOPE_SYNC_BYTE THEN s ELSE AfterJunk(Tail(s))

\* C14: a vscopeFeed call that finds the receiver IDLE and brings no SYNC
\* byte changes nothing and sends nothing; so a stream is parsed and answered
\* as the same stream without the bytes before its first SYNC.
C14_IdleDropsJunk ==
    [][ /\ ( /\ hist'.stream # hist.stream
             /\ dev.rx_state = VS_RX_IDLE
             /\ \A i \in 1 .. Len(hist'.fed) : hist'.fed[i] # VSCOPE_SYNC_BYTE )
           => /\ dev' = dev
              /\ tx' = tx
              /\ rt_mem' = rt_mem
              /\ var_mem' = var_mem
        /\ ~hist'.late
           => LET r == vscopeFeed([dev |-> hist'.base, var_mem |-> var_mem',
                                   rt_mem |-> rt_mem', tx |-> << >>],
                                  AfterJunk(hist'.stream), 0)
              IN  /\ r.tx = tx'
                  /\ RxState(r.dev) = RxState(dev') ]_vars

\* A GET_STATE frame behind a byte that is not SYNC was answered.
C14_Witness ==
    /\ ~hist.late
    /\ hist.stream = << 1 >> \o FrameBytes(VSCOPE_MSG_GET_STATE, << >>)
    /\ tx = vscopeFeed([dev |-> hist.base, var_mem |-> var_mem, rt_mem |-> rt_mem,
                        tx |-> << >>], FrameBytes(VSCOPE_MSG_GET_STATE, << >>), 0).tx
    /\ Len(tx) = 1
    /\ dev.rx_state = VS_RX_IDLE

(***************************************************************************)
(* The receiver fed whole frames that probe the device: the GET_INFO probe *)
(* and, for every command type, frames with payloads of 0, 1 and 3 bytes,  *)
(* in every state that SET_STATE, TRIGGER and ticks lead to.               *)
(***************************************************************************)
\* The bytes C8 02 01 F2 and C8 02 01 D5.
InfoProbeF2 == << VSCOPE_SYNC_BYTE, 2, VSCOPE_MSG_GET_INFO, 242 >>

InfoProbeD5 == << VSCOPE_SYNC_BYTE, 2, VSCOPE_MSG_GET_INFO, 213 >>

ProbeCmds ==
    { Cmd(ty, pl) : ty \in MsgTypes, pl \in { << >>, << 1 >>, << 0, 0, 0 >> } }

ProbeFrames ==
    { FrameBytes(c.type, c.payload) : c \in ProbeCmds } \cup { InfoProbeF2, InfoProbeD5 }

NextProbe ==
    \/ RegisterVar
    \/ InitCall
    \/ Tick
    \/ \E f \in ProbeFrames : Feed(f, now_us)
    \/ CallReturn

SpecProbe == Init /\ [][NextProbe]_vars

(***************************************************************************)
(* The framing of the byte loop of vscopeFeed alone: the (type, payload)   *)
(* pairs that a byte string makes an IDLE receiver hand to                 *)
(* vscope_handle_frame.                                                    *)
(***************************************************************************)
RECURSIVE RxScan(_, _, _, _, _)
RxScan(state, n, buf, data, out) ==
    IF data = << >> THEN out
    ELSE LET byte == Head(data)
             rest == Tail(data)
         IN  CASE state = VS_RX_IDLE ->
                    IF byte = VSCOPE_SYNC_BYTE
                    THEN RxScan(VS_RX_LEN, n, buf, rest, out)
                    ELSE RxScan(state, n, buf, rest, out)
               [] state = VS_RX_LEN ->
                    IF byte < 2 \/ byte > VSCOPE_MAX_PAYLOAD + 2
                    THEN RxScan(VS_RX_IDLE, 0, << >>, rest, out)
                    ELSE RxScan(VS_RX_DATA, byte, << >>, rest, out)
               [] OTHER ->
                    LET b == Append(buf, byte)
                    IN  IF Len(b) >= n
                        THEN RxScan(VS_RX_IDLE, 0, << >>, rest,
                                    IF b[n] = vscope_crc8(SubSeq(b, 1, n - 1))
                                    THEN Append(out, [type |-> b[1],
                                                      payload |-> SubSeq(b, 2, n - 1)])
                                    ELSE out)
                        ELSE RxScan(state, n, b, rest, out)

Dispatched(data) == RxScan(VS_RX_IDLE, 0, << >>, data, << >>)

\* C15: every frame handed to tx_bytes is SYNC, payload length + 2, TYPE,
\* the payload of at most 252 bytes and the CRC-8 of TYPE and payload, 256
\* bytes at most in all, and an IDLE receiver fed the frame passes it on with
\* the same type and payload.
C15_FrameLayout ==
    \A i \in 1 .. Len(tx) :
        LET type == tx[i].type
            payload == tx[i].payload
            n == Len(payload)
            f == FrameBytes(type, payload)
        IN  /\ n <= VSCOPE_MAX_PAYLOAD
            /\ Len(f) = n + 4 /\ Len(f) <= 256
            /\ f[1] = VSCOPE_SYNC_BYTE
            /\ f[2] = n + 2
            /\ f[3] = type
            /\ SubSeq(f, 4, n + 3) = payload
            /\ f[n + 4] = Crc8From(0, << type >> \o payload, 1)
            /\ \A k \in 1 .. Len(f) : f[k] \in 0 .. 255
            /\ Dispatched(f) = << [type |-> type, payload |-> payload] >>

\* A GET_FRAME reply with the current sample of every channel was sent.
C15_Witness ==
    /\ hist.op = "feed"
    /\ Len(tx) = 1
    /\ tx[1].type = VSCOPE_MSG_GET_FRAME
    /\ Len(tx[1].payload) = 4 * VSCOPE_NUM_CHANNELS
    /\ dev.vscope_state = VSCOPE_RUNNING

\* What C16 expects of the reply to an info probe: one frame of TYPE 0x01
\* whose payload starts with the protocol version, N_CH and BUF as a
\* little-endian u16.
InfoReply(out) ==
    /\ Len(out) = 1
    /\ out[1].type = VSCOPE_MSG_GET_INFO
    /\ Len(out[1].payload) >= 4
    /\ SubSeq(out[1].payload, 1, 4) =
          << VSCOPE_PROTOCOL_VERSION, VSCOPE_NUM_CHANNELS,
             VSCOPE_BUFFER_SIZE % 256, VSCOPE_BUFFER_SIZE \div 256 >>

\* C16 (amended): the four bytes C8 02 01 D5, fed to an initialized device
\* whose receiver is IDLE, produce exactly one frame, of TYPE 0x01 with a
\* payload that starts with the protocol version 1, N_CH and BUF as a
\* little-endian u16.
C16_InfoProbe ==
    [][ (/\ hist.op = "idle" /\ hist'.op = "feed"
         /\ dev.rx_state = VS_RX_IDLE
         /\ hist'.fed = InfoProbeD5) => InfoReply(tx') ]_vars

C16_Witness ==
    /\ hist.op = "feed"
    /\ hist.fed = InfoProbeD5
    /\ InfoReply(tx)
    /\ VSCOPE_PROTOCOL_VERSION = 1

\* C16 as stated: the four bytes C8 02 01 F2 produce that frame.
C16_InfoProbeF2 ==
    [][ (/\ hist.op = "idle" /\ hist'.op = "feed"
         /\ dev.rx_state = VS_RX_IDLE
         /\ hist'.fed = InfoProbeF2) => InfoReply(tx') ]_vars

\* The payload length contract of each command type.
LenOk(type, n) ==
    CASE type \in { VSCOPE_MSG_GET_INFO, VSCOPE_MSG_GET_TIMING, VSCOPE_MSG_GET_STATE,
                    VSCOPE_MSG_TRIGGER, VSCOPE_MSG_GET_FRAME,
                    VSCOPE_MSG_GET_SNAPSHOT_HEADER, VSCOPE_MSG_GET_CHANNEL_MAP,
                    VSCOPE_MSG_GET_CHANNEL_LABELS, VSCOPE_MSG_GET_TRIGGER } -> n = 0
      [] type = VSCOPE_MSG_SET_TIMING -> n = 8
      [] type \in { VSCOPE_MSG_SET_STATE, VSCOPE_MSG_GET_RT_BUFFER } -> n = 1
      [] type = VSCOPE_MSG_GET_SNAPSHOT_DATA -> n = 3
      [] type \in { VSCOPE_MSG_GET_VAR_LIST, VSCOPE_MSG_GET_RT_LABELS } -> n <= 2
      [] type = VSCOPE_MSG_SET_CHANNEL_MAP -> n = VSCOPE_NUM_CHANNELS
      [] type = VSCOPE_MSG_SET_RT_BUFFER -> n = 5
      [] type = VSCOPE_MSG_SET_TRIGGER -> n = 6
      [] OTHER -> TRUE

\* A whole frame with a good CRC is being fed to an IDLE receiver.
ValidFrameFed ==
    /\ hist.op = "idle" /\ hist'.op = "feed"
    /\ dev.rx_state = VS_RX_IDLE
    /\ WellFramed(hist'.fed)
    /\ LET f == hist'.fed
       IN  f[f[2] + 2] = vscope_crc8(SubSeq(f, 3, f[2] + 1))

\* C17: in every device state, a valid frame of a known type whose payload
\* length is off the contract of the type is answered with ERROR BAD_LEN and
\* changes nothing but the RX state.
C17_BadLen ==
    [][ (/\ ValidFrameFed
         /\ hist'.fed[3] \in MsgTypes
         /\ ~LenOk(hist'.fed[3], hist'.fed[2] - 2)) =>
          /\ tx' = << ErrorFrame(VSCOPE_ERR_BAD_LEN) >>
          /\ NonRx(dev') = NonRx(dev)
          /\ rt_mem' = rt_mem ]_vars

(***************************************************************************)
(* Timing, trigger and channel map set and read back, with ticks, manual   *)
(* triggers and state requests in between.                                 *)
(***************************************************************************)
SetCmds ==
    { SetTimingCmd(1, 0), SetTimingCmd(1, 1),
      SetTriggerCmd(0, 0, VSCOPE_TRG_DISABLED),
      SetTriggerCmd(1, 1, VSCOPE_TRG_RISING),
      Cmd(VSCOPE_MSG_SET_CHANNEL_MAP, FnSeq([i \in Channels |-> 0], 0,
                                            VSCOPE_NUM_CHANNELS - 1)),
      Cmd(VSCOPE_MSG_SET_CHANNEL_MAP, FnSeq([i \in Channels |-> i], 0,
                                            VSCOPE_NUM_CHANNELS - 1)),
      Cmd(VSCOPE_MSG_SET_CHANNEL_MAP, FnSeq([i \in Channels |-> VSCOPE_MAX_VARIABLES], 0,
                                            VSCOPE_NUM_CHANNELS - 1)),
      Cmd(VSCOPE_MSG_GET_TIMING, << >>),
      Cmd(VSCOPE_MSG_GET_TRIGGER, << >>),
      Cmd(VSCOPE_MSG_GET_CHANNEL_MAP, << >>),
      SetStateCmd(VSCOPE_RUNNING) }

\* The kind of setting a command type sets or gets.
SetKind(type) ==
    CASE type \in {VSCOPE_MSG_SET_TIMING, VSCOPE_MSG_GET_TIMING} -> "timing"
      [] type \in {VSCOPE_MSG_SET_TRIGGER, VSCOPE_MSG_GET_TRIGGER} -> "trigger"
      [] type \in {VSCOPE_MSG_SET_CHANNEL_MAP, VSCOPE_MSG_GET_CHANNEL_MAP} -> "map"
      [] OTHER -> "none"

\* The reply is not an ERROR frame: the set was accepted.
SetAccepted(type, reply) ==
    /\ type \in {VSCOPE_MSG_SET_TIMING, VSCOPE_MSG_SET_TRIGGER, VSCOPE_MSG_SET_CHANNEL_MAP}
    /\ Len(reply) = 1 /\ reply[1].type = type

\* vscope_handle_frame runs on (type, payload); the payload of an accepted
\* set is remembered.
DispatchSet(type, payload) ==
    /\ Ready
    /\ LET r == vscope_handle_frame(World, type, payload)
       IN  /\ dev' = r.dev
           /\ rt_mem' = r.rt_mem
           /\ tx' = r.tx
           /\ hist' = [HistDispatch(hist, type, payload, r.tx) EXCEPT
                          !.set = IF SetAccepted(type, r.tx)
                                  THEN [@ EXCEPT ![SetKind(type)] = payload]
                                  ELSE @]
    /\ UNCHANGED << var_mem, now_us, task >>

NextSet ==
    \/ RegisterVar
    \/ InitCall
    \/ Tick
    \/ ManualTrigger
    \/ \E c \in SetCmds : DispatchSet(c.type, c.payload)
    \/ CallReturn

SpecSet == Init /\ [][NextSet]_vars

\* C18: the reply to an accepted SET_TIMING, SET_TRIGGER or SET_CHANNEL_MAP
\* carries the values of its payload, which are the values then stored; and
\* GET_TIMING, GET_TRIGGER and GET_CHANNEL_MAP reply with the values of the
\* last accepted set of their kind, whatever ticks, triggers and other
\* commands came in between.
C18_SetGetRoundTrip ==
    [][ (hist.op = "idle" /\ hist'.op = "dispatch") =>
          LET c == hist'.cmd
          IN  /\ SetAccepted(c.type, tx') =>
                   /\ tx'[1].payload = c.payload
                   /\ c.type = VSCOPE_MSG_SET_TIMING =>
                        /\ dev'.vscope_divider = vscope_read_u32(SubSeq(c.payload, 1, 4))
                        /\ dev'.vscope_pre_trig = vscope_read_u32(SubSeq(c.payload, 5, 8))
                   /\ c.type = VSCOPE_MSG_SET_TRIGGER =>
                        /\ dev'.vscope_trigger_threshold =
                              vscope_read_f32(SubSeq(c.payload, 1, 4))
                        /\ dev'.vscope_trigger_channel = c.payload[5]
                        /\ dev'.vscope_trigger_mode = c.payload[6]
                   /\ c.type = VSCOPE_MSG_SET_CHANNEL_MAP =>
                        \A i \in Channels : dev'.channel_map[i] = c.payload[i + 1]
              /\ (c.type \in {VSCOPE_MSG_GET_TIMING, VSCOPE_MSG_GET_TRIGGER,
                              VSCOPE_MSG_GET_CHANNEL_MAP}
                    /\ c.payload = << >>
                    /\ hist.set[SetKind(c.type)] # << >>) =>
                   tx' = << [type |-> c.type, payload |-> hist.set[SetKind(c.type)]] >> ]_vars

\* A GET_TRIGGER returns the trigger set before a capture ran to its end.
C18_Witness ==
    /\ hist.op = "dispatch"
    /\ hist.cmd = Cmd(VSCOPE_MSG_GET_TRIGGER, << >>)
    /\ hist.set.trigger = SetTriggerCmd(1, 1, VSCOPE_TRG_RISING).payload
    /\ tx = << [type |-> VSCOPE_MSG_GET_TRIGGER, payload |-> hist.set.trigger] >>
    /\ dev.snapshot_valid

\* C19: a SET_STATE with a 1-byte payload s is answered with ERROR BAD_PARAM
\* and changes nothing when s > ACQUIRING; otherwise, in any state, it stores
\* s into request, changes nothing else, the state included, and answers with
\* the current state, not with s.
C19_SetState ==
    [][ (/\ hist.op = "idle" /\ hist'.op = "dispatch"
         /\ hist'.cmd.type = VSCOPE_MSG_SET_STATE
         /\ Len(hist'.cmd.payload) = 1) =>
          LET s == hist'.cmd.payload[1]
          IN  IF s > VSCOPE_ACQUIRING
              THEN /\ tx' = << ErrorFrame(VSCOPE_ERR_BAD_PARAM) >>
                   /\ dev' = dev
              ELSE /\ dev' = [dev EXCEPT !.vscope_request = s]
                   /\ tx' = << [type |-> VSCOPE_MSG_SET_STATE,
                                payload |-> << dev.vscope_state >>] >> ]_vars

\* SET_STATE(RUNNING) in the middle of a capture is answered with ACQUIRING.
C19_Witness ==
    /\ hist.op = "dispatch"
    /\ hist.cmd = SetStateCmd(VSCOPE_RUNNING)
    /\ dev.vscope_state = VSCOPE_ACQUIRING
    /\ dev.vscope_request = VSCOPE_RUNNING
    /\ tx = << [type |-> VSCOPE_MSG_SET_STATE, payload |-> << VSCOPE_ACQUIRING >>] >>

(***************************************************************************)
(* Registration and vscopeInit, before and after the device is in use.     *)
(***************************************************************************)
InitCmds ==
    { SetStateCmd(VSCOPE_RUNNING),
      SetTimingCmd(1, 1),
      SetTriggerCmd(1, 1, VSCOPE_TRG_RISING),
      Cmd(VSCOPE_MSG_TRIGGER, << >>),
      Cmd(VSCOPE_MSG_SET_CHANNEL_MAP, FnSeq([i \in Channels |-> 0], 0,
                                            VSCOPE_NUM_CHANNELS - 1)) }

NextInit ==
    \/ RegisterVar
    \/ RegisterRtBuffer
    \/ InitCall
    \/ RegisterVarLate
    \/ RegisterRtBufferLate
    \/ ReInit
    \/ Tick
    \/ \E c \in InitCmds : Dispatch(c.type, c.payload)
    \/ CallReturn

SpecInit == Init /\ [][NextInit]_vars

\* C20: vscopeInit leaves registration locked, state MISCONFIGURED if
\* var_count < N_CH and HALTED otherwise, request HALTED, divider 1, pre_trig
\* 0, acq_time BUF, both indices 0, snapshot_valid false, trigger mode
\* DISABLED with trigger_invalid set and the channel map i for i < var_count
\* and 0 otherwise; a registration call after it leaves var_count, rt_count
\* and both catalogs as they were.
C20_InitLocks ==
    [][ /\ ( \/ ~dev.registration_locked /\ dev'.registration_locked
             \/ hist.op = "idle" /\ hist'.op = "init" )
           => /\ dev'.registration_locked
              /\ dev'.var_count = dev.var_count /\ dev'.rt_count = dev.rt_count
              /\ dev'.vscope_state = IF dev.var_count < VSCOPE_NUM_CHANNELS
                                     THEN VSCOPE_MISCONFIGURED ELSE VSCOPE_HALTED
              /\ dev'.vscope_request = VSCOPE_HALTED
              /\ dev'.vscope_divider = 1
              /\ dev'.vscope_pre_trig = 0
              /\ dev'.vscope_acq_time = VSCOPE_BUFFER_SIZE
              /\ dev'.vscope_index = 0 /\ dev'.vscope_first_element = 0
              /\ ~dev'.snapshot_valid
              /\ dev'.vscope_trigger_mode = VSCOPE_TRG_DISABLED
              /\ dev'.trigger_invalid
              /\ \A i \in Channels :
                    dev'.channel_map[i] = IF i < dev.var_count THEN i ELSE 0
        /\ ( hist.op = "idle" /\ hist'.op \in {"register", "register_rt"} )
           => /\ dev'.var_count = dev.var_count
              /\ dev'.rt_count = dev.rt_count
              /\ dev'.var_catalog = dev.var_catalog
              /\ dev'.rt_names = dev.rt_names
              /\ dev'.rt_values = dev.rt_values ]_vars

\* A variable was offered to a locked device whose catalog had room.
C20_Witness ==
    /\ hist.op = "register"
    /\ dev.registration_locked
    /\ dev.var_count = 1
    /\ dev.var_count < VSCOPE_MAX_VARIABLES
    /\ dev.vscope_state = VSCOPE_MISCONFIGURED
    /\ dev.channel_map = [i \in Channels |-> 0]

(***************************************************************************)
(* A running device whose trigger channel changes sign, under SET_STATE    *)
(* and SET_TRIGGER, with every entry point running to completion.          *)
(***************************************************************************)
SigCmds ==
    { SetTriggerCmd(0, 0, VSCOPE_TRG_BOTH),
      SetStateCmd(VSCOPE_RUNNING),
      SetStateCmd(VSCOPE_HALTED) }

NextSig ==
    \/ RegisterVar
    \/ InitCall
    \/ Tick
    \/ \E v \in {0 - MaxSample, MaxSample} : SetVar(0, v)
    \/ \E c \in SigCmds : Dispatch(c.type, c.payload)
    \/ CallReturn

SpecSig == Init /\ [][NextSig]_vars

\* C21: an effective tick that starts with state RUNNING and request HALTED
\* ends with state HALTED, whatever the trigger configuration and the
\* sampled signal are.
C21_HaltRequestWins ==
    [][ (/\ hist.op = "idle" /\ hist'.op = "tick" /\ hist'.effective
         /\ dev.vscope_state = VSCOPE_RUNNING
         /\ dev.vscope_request = VSCOPE_HALTED) =>
          dev'.vscope_state = VSCOPE_HALTED ]_vars

\* The fields of the acquisition engine and the configuration fields.
EngineFields(d) ==
    << d.vscope_state, d.vscope_index, d.vscope_first_element, d.vscope_buffer,
       d.snapshot_meta, d.snapshot_rt_values, d.snapshot_rt_count, d.snapshot_valid >>

ConfigFields(d) ==
    << d.vscope_divider, d.vscope_pre_trig, d.vscope_acq_time, d.channel_map,
       d.vscope_frame, d.vscope_trigger_threshold, d.vscope_trigger_channel,
       d.vscope_trigger_mode, d.vscope_request, d.trigger_invalid >>

\* C22: after init no command handler writes state, w, f, the capture buffer,
\* the snapshot metadata or snapshot_valid, and no tick writes divider,
\* pre_trig, acq_time, the channel map, the sample pointers, the trigger
\* threshold, channel and mode, request or trigger_invalid.
C22_SingleWriter ==
    [][ /\ (hist.op = "idle" /\ hist'.op \in {"dispatch", "feed"})
              => EngineFields(dev') = EngineFields(dev)
        /\ (hist.op = "idle" /\ hist'.op = "tick")
              => ConfigFields(dev') = ConfigFields(dev) ]_vars

(***************************************************************************)
(* SET_TIMING in the task context with the ISR preempting it.  The handler *)
(* tests its payload and vscope_state, then stores divider, pre_trig and   *)
(* acq_time to plain statics that the ISR reads, so the build may make     *)
(* the stores visible to the ISR in any order; the reply comes after them. *)
(***************************************************************************)
SetTimingFields == { "vscope_divider", "vscope_pre_trig", "vscope_acq_time" }

\* What the handler stores, by static.
SetTimingStores(payload) ==
    [ vscope_divider |-> vscope_read_u32(SubSeq(payload, 1, 4)),
      vscope_pre_trig |-> vscope_read_u32(SubSeq(payload, 5, 8)),
      vscope_acq_time |-> VSCOPE_BUFFER_SIZE - vscope_read_u32(SubSeq(payload, 5, 8)) ]

\* The handler has passed its three tests and is about to store.
SetTimingEnter(payload) ==
    /\ Ready
    /\ Len(payload) = 8
    /\ vscope_read_u32(SubSeq(payload, 1, 4)) # 0
    /\ vscope_read_u32(SubSeq(payload, 5, 8)) <= VSCOPE_BUFFER_SIZE
    /\ dev.vscope_state = VSCOPE_HALTED
    /\ task' = [pc |-> "set_timing", payload |-> payload, pending |-> SetTimingFields]
    /\ UNCHANGED << dev, var_mem, rt_mem, tx, now_us, hist >>

\* One of the handler's stores reaches memory.
SetTimingStore(f) ==
    /\ hist.op = "idle"
    /\ task.pc = "set_timing"
    /\ f \in task.pending
    /\ dev' = [dev EXCEPT ![f] = SetTimingStores(task.payload)[f]]
    /\ task' = [task EXCEPT !.pending = @ \ {f}]
    /\ UNCHANGED << var_mem, rt_mem, tx, now_us, hist >>

\* vscope_send_timing(VSCOPE_MSG_SET_TIMING), and the handler returns.
SetTimingReply ==
    /\ hist.op = "idle"
    /\ task.pc = "set_timing"
    /\ task.pending = {}
    /\ LET r == vscope_send_timing(World, VSCOPE_MSG_SET_TIMING)
       IN  /\ tx' = r.tx
           /\ hist' = HistDispatch(hist, VSCOPE_MSG_SET_TIMING, task.payload, r.tx)
    /\ task' = TaskIdle
    /\ UNCHANGED << dev, var_mem, rt_mem, now_us >>

TimCmds ==
    { SetStateCmd(VSCOPE_RUNNING), SetStateCmd(VSCOPE_HALTED), Cmd(VSCOPE_MSG_TRIGGER, << >>) }

TimPayloads ==
    { SetTimingCmd(MaxDivider, 1).payload, SetTimingCmd(1, VSCOPE_BUFFER_SIZE - 1).payload }

NextTim ==
    \/ RegisterVar
    \/ InitCall
    \/ Tick
    \/ \E c \in TimCmds : Dispatch(c.type, c.payload)
    \/ \E pl \in TimPayloads : SetTimingEnter(pl)
    \/ \E f \in SetTimingFields : SetTimingStore(f)
    \/ SetTimingReply
    \/ CallReturn

SpecTim == Init /\ [][NextTim]_vars

\* C23: in every state in which a tick can execute after init, the points
\* between the stores of a SET_TIMING handler included, divider >= 1,
\* pre_trig <= BUF and acq_time = BUF - pre_trig.
C23_TimingConsistent ==
    (dev.registration_locked /\ hist.op = "idle") =>
        /\ dev.vscope_divider >= 1
        /\ dev.vscope_pre_trig <= VSCOPE_BUFFER_SIZE
        /\ dev.vscope_acq_time = VSCOPE_BUFFER_SIZE - dev.vscope_pre_trig

\* C28: divider, pre_trig and acq_time keep their values while the state is
\* RUNNING or ACQUIRING, in every interleaving of ticks with a SET_TIMING
\* handler.
C28_TimingFrozenInRun ==
    [][ dev.vscope_state \in {VSCOPE_RUNNING, VSCOPE_ACQUIRING}
          => Timing(dev') = Timing(dev) ]_vars


(***************************************************************************)
(* SET_CHANNEL_MAP preempted by the ISR: the loop of                       *)
(* vscope_update_channel_map stores to channel_map[i] and vscope_frame[i], *)
(* plain statics, one element at a time; a tick may run between any two    *)
(* of the stores.                                                          *)
(***************************************************************************)
SetMapFields == { "channel_map", "vscope_frame" } \X Channels

\* The handler has validated its payload (first loop) and is about to store.
SetMapEnter(payload) ==
    /\ Ready
    /\ Len(payload) = VSCOPE_NUM_CHANNELS
    /\ \A i \in Channels : payload[i + 1] < dev.var_count
    /\ task' = [pc |-> "set_channel_map", payload |-> payload,
                pending |-> SetMapFields]
    /\ UNCHANGED << dev, var_mem, rt_mem, tx, now_us, hist >>

\* One of the stores of the second loop reaches memory.
SetMapStore(s) ==
    /\ hist.op = "idle"
    /\ task.pc = "set_channel_map"
    /\ s \in task.pending
    /\ dev' = IF s[1] = "channel_map"
              THEN [dev EXCEPT !.channel_map[s[2]] = task.payload[s[2] + 1]]
              ELSE [dev EXCEPT !.vscope_frame[s[2]] =
                                   dev.var_catalog[task.payload[s[2] + 1]].ptr]
    /\ task' = [task EXCEPT !.pending = @ \ {s}]
    /\ UNCHANGED << var_mem, rt_mem, tx, now_us, hist >>

\* vscope_send_channel_map(VSCOPE_MSG_SET_CHANNEL_MAP), and the handler returns.
SetMapReply ==
    /\ hist.op = "idle"
    /\ task.pc = "set_channel_map"
    /\ task.pending = {}
    /\ LET r == vscope_send_channel_map(World, VSCOPE_MSG_SET_CHANNEL_MAP)
       IN  /\ tx' = r.tx
           /\ hist' = HistDispatch(hist, VSCOPE_MSG_SET_CHANNEL_MAP, task.payload, r.tx)
    /\ task' = TaskIdle
    /\ UNCHANGED << dev, var_mem, rt_mem, now_us >>

NextSwap ==
    \/ RegisterVar
    \/ InitCall
    \/ Tick
    \/ Dispatch(SetStateCmd(VSCOPE_RUNNING).type, SetStateCmd(VSCOPE_RUNNING).payload)
    \/ \E ids \in MapIds : SetMapEnter(FnSeq(ids, 0, VSCOPE_NUM_CHANNELS - 1))
    \/ \E s \in SetMapFields : SetMapStore(s)
    \/ SetMapReply
    \/ CallReturn

SpecSwap == Init /\ [][NextSwap]_vars

\* C24: in every state in which a tick can execute after init, whatever the
\* number of registered variables, every channel's map entry is below
\* var_count and its sample pointer is the pointer of the catalog entry the
\* map names, so that no tick samples a row through a mixture of an old and
\* a new assignment.
C24_MapConsistent ==
    (dev.registration_locked /\ hist.op = "idle") =>
        \A ch \in Channels :
            /\ dev.channel_map[ch] < dev.var_count
            /\ dev.vscope_frame[ch] = dev.var_catalog[dev.channel_map[ch]].ptr


\* C25: a call of vscopeAcquire that finds fewer than divider calls counted
\* since the last effective tick changes nothing except the tick counter;
\* every other call resets the counter and runs the detector (which stores
\* last_delta) and the state machine (which, in HALTED, rewinds the index
\* and starts the run that was requested).  This holds too for the ticks
\* that follow, or fall between, the stores of an accepted SET_TIMING.
C25_DividerGate ==
    [][ (hist.op = "idle" /\ hist'.op = "tick") =>
          IF dev.divider_ticks + 1 < dev.vscope_divider
          THEN /\ dev' = [dev EXCEPT !.divider_ticks = dev.divider_ticks + 1]
               /\ UNCHANGED << var_mem, rt_mem, tx >>
          ELSE /\ dev'.divider_ticks = 0
               /\ dev'.last_delta = CurrentDelta(World)
               /\ dev.vscope_state = VSCOPE_HALTED =>
                    /\ dev'.vscope_index = 0
                    /\ dev.vscope_request = VSCOPE_RUNNING =>
                         dev'.vscope_state = VSCOPE_RUNNING ]_vars

\* An effective tick under a divider that only an accepted SET_TIMING can
\* have stored: the call before it was held back by the divider.
C25_Witness ==
    /\ hist.op = "tick" /\ hist.effective
    /\ dev.vscope_divider = MaxDivider
    /\ dev.vscope_divider > 1
    /\ dev.vscope_state = VSCOPE_RUNNING
    /\ dev.vscope_index = 0


\* C26: when vscopeInit found fewer registered variables than channels, the
\* state is MISCONFIGURED after every tick, manual trigger and command, and
\* no tick changes the state, the write index, the first element, the
\* capture buffer, the snapshot metadata or snapshot_valid.
C26_MisconfiguredAbsorbs ==
    [][ (dev'.registration_locked /\ dev'.var_count < VSCOPE_NUM_CHANNELS) =>
          /\ dev'.vscope_state = VSCOPE_MISCONFIGURED
          /\ (hist.op = "idle" /\ hist'.op = "tick") =>
                 EngineFields(dev') = EngineFields(dev) ]_vars

\* An effective tick of a misconfigured device that has been asked to run.
C26_Witness ==
    /\ dev.registration_locked
    /\ dev.var_count < VSCOPE_NUM_CHANNELS
    /\ dev.vscope_state = VSCOPE_MISCONFIGURED
    /\ dev.vscope_request = VSCOPE_RUNNING
    /\ hist.op = "tick" /\ hist.effective


(***************************************************************************)
(* The receiver fed one byte at a time, with length bytes on both sides of *)
(* the accepted range 2 .. MAX_PAYLOAD + 2.                                *)
(***************************************************************************)
NextLen ==
    \/ InitCall
    \/ \E b \in { VSCOPE_SYNC_BYTE, 1, 2, VSCOPE_MAX_PAYLOAD + 2, VSCOPE_MAX_PAYLOAD + 3,
                  VSCOPE_MSG_GET_STATE, vscope_crc8(<< VSCOPE_MSG_GET_STATE >>) },
          gap \in { 0, VSCOPE_FRAME_TIMEOUT_US + 1 } : FeedMore(<< b >>, gap)

SpecLen == Init /\ [][NextLen]_vars

\* C27: whenever the receiver is in DATA the expected length is between 2
\* and MAX_PAYLOAD + 2 and the write index is below it (so every byte is
\* stored inside rx_buf); a length byte outside that range leaves the
\* receiver IDLE, sends nothing and changes nothing but the RX state.
C27_LengthGate ==
    [][ /\ dev'.rx_state = VS_RX_DATA =>
             /\ 2 <= dev'.rx_expected_len
             /\ dev'.rx_expected_len <= VSCOPE_MAX_PAYLOAD + 2
             /\ dev'.rx_index < dev'.rx_expected_len
             /\ Len(dev'.rx_buf) = dev'.rx_index
        /\ (/\ dev.rx_state = VS_RX_LEN
            /\ hist'.stream = hist.stream \o hist'.fed
            /\ Len(hist'.fed) = 1
            /\ hist'.fed[1] < 2 \/ hist'.fed[1] > VSCOPE_MAX_PAYLOAD + 2) =>
             /\ dev'.rx_state = VS_RX_IDLE
             /\ tx' = tx
             /\ dev' = [vscope_reset_rx(dev) EXCEPT !.rx_last_us = dev'.rx_last_us] ]_vars

\* A frame with the largest accepted length has its first byte stored after
\* earlier length bytes below and above the range were refused.
C27_Witness ==
    /\ dev.rx_state = VS_RX_DATA
    /\ dev.rx_expected_len = VSCOPE_MAX_PAYLOAD + 2
    /\ dev.rx_index = 1
    /\ \E i \in 1 .. Len(hist.stream) - 1 :
          hist.stream[i] = VSCOPE_SYNC_BYTE /\ hist.stream[i + 1] = VSCOPE_MAX_PAYLOAD + 3


(***************************************************************************)
(* A capture under commands and manual triggers, with the ISR calling      *)
(* vscopeAcquire again and again: every entry point runs to completion,    *)
(* and a tick that can be taken infinitely often is taken.                 *)
(***************************************************************************)
NextLive ==
    \/ RegisterVar
    \/ InitCall
    \/ Tick
    \/ ManualTrigger
    \/ \E c \in { SetStateCmd(VSCOPE_HALTED), SetStateCmd(VSCOPE_RUNNING),
                  Cmd(VSCOPE_MSG_TRIGGER, << >>),
                  SetTriggerCmd(0, 0, VSCOPE_TRG_BOTH),
                  Cmd(VSCOPE_MSG_SET_CHANNEL_MAP,
                      [i \in 1 .. VSCOPE_NUM_CHANNELS |-> 0]) } :
          Dispatch(c.type, c.payload)
    \/ CallReturn

SpecLive == Init /\ [][NextLive]_vars /\ SF_vars(Tick) /\ WF_vars(CallReturn)

\* C29: from ACQUIRING the device goes nowhere but to HALTED, and arrives
\* there with snapshot_valid set and the rows of the capture written; no
\* command and no manual trigger aborts or restarts the capture (run_index
\* never goes back); and with ticks arriving for ever every capture ends
\* HALTED with a valid snapshot.
C29_CaptureCompletes ==
    /\ [][ dev.vscope_state = VSCOPE_ACQUIRING =>
             /\ dev'.vscope_state \in {VSCOPE_ACQUIRING, VSCOPE_HALTED}
             /\ dev'.vscope_state = VSCOPE_ACQUIRING =>
                    /\ dev'.run_index >= dev.run_index
                    /\ ~dev'.snapshot_valid
             /\ dev'.vscope_state = VSCOPE_HALTED =>
                    /\ dev'.snapshot_valid
                    /\ dev.run_index = dev.vscope_acq_time ]_vars
    /\ (dev.vscope_state = VSCOPE_ACQUIRING)
          ~> (dev.vscope_state = VSCOPE_HALTED /\ dev.snapshot_valid)

\* A capture has just completed although SET_STATE(RUNNING) was accepted
\* while it was under way.
C29_Witness ==
    /\ hist.op = "tick"
    /\ dev.vscope_state = VSCOPE_HALTED
    /\ dev.snapshot_valid
    /\ dev.vscope_request = VSCOPE_RUNNING
    /\ hist.acq_ticks >= 1


(***************************************************************************)
(* GET_SNAPSHOT_HEADER and GET_SNAPSHOT_DATA preempted by the ISR: the     *)
(* handler tests snapshot_valid, ticks may run, and then the handler       *)
(* copies the snapshot into its reply.  (Ticks between the copies of two   *)
(* rows are left out: the interleavings here are some of the program's.)   *)
(***************************************************************************)
\* The handler of (type, payload) has found snapshot_valid set.
SnapshotEnter(type, payload) ==
    /\ Ready
    /\ dev.snapshot_valid
    /\ task' = [pc |-> IF type = VSCOPE_MSG_GET_SNAPSHOT_DATA
                       THEN "get_snapshot_data" ELSE "get_snapshot_header",
                payload |-> payload, pending |-> {}]
    /\ hist' = [hist EXCEPT !.base = dev]
    /\ UNCHANGED << dev, var_mem, rt_mem, tx, now_us >>

\* The rest of the handler, which does not read snapshot_valid again.
SnapshotCopy ==
    /\ hist.op = "idle"
    /\ task.pc \in {"get_snapshot_data", "get_snapshot_header"}
    /\ LET w == [World EXCEPT !.dev.snapshot_valid = TRUE]
           type == IF task.pc = "get_snapshot_data" THEN VSCOPE_MSG_GET_SNAPSHOT_DATA
                   ELSE VSCOPE_MSG_GET_SNAPSHOT_HEADER
           r == IF task.pc = "get_snapshot_data"
                THEN vscope_handle_get_snapshot_data(w, task.payload)
                ELSE vscope_handle_get_snapshot_header(w)
       IN  /\ tx' = r.tx
           /\ hist' = [HistDispatch(hist, type, task.payload, r.tx)
                        EXCEPT !.base = DevZero]
    /\ task' = TaskIdle
    /\ UNCHANGED << dev, var_mem, rt_mem, now_us >>

NextSnap ==
    \/ RegisterVar
    \/ InitCall
    \/ Tick
    \/ \E v \in {0, MaxSample} : SetVar(0, v)
    \/ \E c \in { SetStateCmd(VSCOPE_RUNNING), Cmd(VSCOPE_MSG_TRIGGER, << >>) } :
          Dispatch(c.type, c.payload)
    \/ \E c \in { GetSnapshotDataCmd(0, VSCOPE_BUFFER_SIZE),
                  Cmd(VSCOPE_MSG_GET_SNAPSHOT_HEADER, << >>) } :
          SnapshotEnter(c.type, c.payload)
    \/ SnapshotCopy
    \/ CallReturn

SpecSnap == Init /\ [][NextSnap]_vars

\* C30: the rows of a successful GET_SNAPSHOT_DATA response and the fields
\* of a successful GET_SNAPSHOT_HEADER response are those of the snapshot
\* the handler found valid, whatever ticks ran between that test and the
\* copy.
C30_SnapshotCoherent ==
    [][ (task.pc \in {"get_snapshot_data", "get_snapshot_header"} /\ task'.pc = "idle"
           /\ tx'[1].type # VSCOPE_MSG_ERROR) =>
          LET w == [dev |-> hist.base, var_mem |-> var_mem, rt_mem |-> rt_mem,
                    tx |-> << >>]
          IN  tx' = IF task.pc = "get_snapshot_data"
                    THEN vscope_handle_get_snapshot_data(w, task.payload).tx
                    ELSE vscope_handle_get_snapshot_header(w).tx ]_vars


(***************************************************************************)
(* The run of SpecLive's entry points on an application whose registered   *)
(* floats hold pairwise different values that never change (variable k     *)
(* holds k), so that a stored sample tells which variable it was read      *)
(* from.                                                                   *)
(***************************************************************************)
InitVia ==
    /\ dev = DevZero
    /\ var_mem = [k \in VarIds |-> k]
    /\ rt_mem = [k \in RtIds |-> 0]
    /\ tx = << >>
    /\ now_us = 0
    /\ task = TaskIdle
    /\ hist = HistInit

SpecVia == InitVia /\ [][NextLive]_vars

\* C31: in a valid snapshot every row written in the run holds, for every
\* channel ch, the value of the variable with catalog index
\* snapshot_meta.channel_map[ch], the map GET_SNAPSHOT_HEADER reports.
C31_RowsFollowHeaderMap ==
    dev.snapshot_valid =>
        \A r \in Rows, ch \in Channels :
            hist.age[r] < VSCOPE_BUFFER_SIZE =>
                dev.vscope_buffer[r][ch] =
                    Deref(World, dev.var_catalog[dev.snapshot_meta.channel_map[ch]].ptr)


\* C32: a tick that finds a valid snapshot, with no SET_STATE(RUNNING)
\* accepted since the capture completed (hist.armed is cleared by the tick
\* that halts the device), leaves snapshot_valid set and the first element,
\* the buffer and the snapshot metadata unchanged.
C32_SnapshotStaysValid ==
    [][ (/\ hist.op = "idle" /\ hist'.op = "tick"
         /\ dev.snapshot_valid
         /\ ~hist.armed) =>
          /\ dev'.snapshot_valid
          /\ dev'.vscope_first_element = dev.vscope_first_element
          /\ dev'.vscope_buffer = dev.vscope_buffer
          /\ dev'.snapshot_meta = dev.snapshot_meta
          /\ dev'.snapshot_rt_values = dev.snapshot_rt_values
          /\ dev'.snapshot_rt_count = dev.snapshot_rt_count ]_vars

=============================================================================
